---------------------------- MODULE Spec2Model ----------------------------
(***************************************************************************)
(* LearnGenie ("AI Tutor"): the quiz generator component, the chat view    *)
(* and the relational schema with its row-level policies, as state         *)
(* machines.  Each part has its own specification (SpecMCQ, SpecChat,      *)
(* SpecStore and SpecBooks); the variables of the other parts stay at      *)
(* their initial values, except that the chat view reads the books table.  *)
(***************************************************************************)
EXTENDS Integers, Sequences, FiniteSets, TLC

VARIABLES
    user,                  \* useAuth().user: id of the signed-in user
    \* ---- MCQGenerator component state (useState hooks) ----
    quizBook,              \* the book prop: id of the book the quiz is about
    step, config, mcqs, userAnswers, isGenerating, currentQuestionIndex,
    score, error,
    mcqReq,                \* POST /generate-mcqs request in flight
    mcqResp,               \* its response, on the way back to the component
    lastGen,               \* history: how many items the last handled response
                           \* carried and how many of them validMcqs kept
    \* ---- the relational store (SUPABASE_SCHEMA_ENHANCED.sql) ----
    authUid,               \* auth.uid() of the session issuing the statements
    books, conversations, chat_histories, mcq_rows,    \* the tables' rows
    nextBookId,            \* gen_random_uuid(): ids are fresh
    nsUsed,                \* history: <<book id, namespace>> pairs ever stored
    lastCascade,           \* history: rows removed by the cascade of the last
                           \* DELETE on books
    \* ---- ChatInterface component state (useState hooks) ----
    version,               \* which ChatInterface is mounted: "current" or "earlier"
    bookId,                \* useParams().bookId
    book, messages, inputMessage, isLoading, conversationHistory,
    currentConversationId,
    bookFetch,             \* GET /books of fetchBookInfo, in flight
    histFetch,             \* GET /chat-history of the mount effect, in flight
    chatReq,               \* POST /chat in flight, with what sendMessage's
                           \* closure holds until the response is handled
    chatResp,              \* its outcome, on the way back to the component
    turns,                 \* messages sent so far (numbers the sends)
    saved,                 \* conversations saved so far by newChat
    transcript,            \* the chat messages the backend stored for the
                           \* book, in creation order
    lastSettled,           \* history: the status the book had when the backend
                           \* handled the request whose outcome sendMessage
                           \* handled last ("none" while there is none)
    \* ---- Dashboard and WebScraper component state ----
    uploadType, selectedFile, bookName, showUploadModal, isUploading,
    uploadProgress,
    progressTimer,         \* the setInterval of the running attempt is active
    timers,                \* the setTimeout callbacks that are pending
    uploadReq,             \* POST /upload-book or /scrape-url in flight
    uploadResp,            \* its outcome, on the way back to the component
    dashBooks,             \* books: the list the dashboard shows
    isLoadingBooks,
    booksFetches,          \* GET /books requests in flight, by what issued them
    wsUrl, wsTitle, wsIsLoading,    \* WebScraper: url, title, isLoading
    alertShown,            \* the alert() on screen, if any
    deleteReq,             \* DELETE /book/:id of deleteBook in flight, then its
                           \* outcome on the way back
    lastIssued,            \* history: the outcome of the most recently issued
                           \* GET /books, once fetchBooks has handled it
    \* ---- the ingestion pipeline of the backend (chunker, index writer) ----
    docText,               \* the extracted text of a content item
    chunkSize, chunkOverlap,
    chunks,                \* the chunker's output (<<>> before it has run)
    vectorIndex,           \* the entries of the vector index
    upserted,              \* chunks written by the ingestion under way
    ingests,               \* completed ingestions of the content item
    \* ---- the App component (routes) ----
    appVersion,            \* which of the two versions of App is running
    pathname,              \* location.pathname, as its list of segments
    isDarkTheme, isMobileMenuOpen,
    screen                 \* the element the matching Route has rendered

varsMCQ == <<quizBook, step, config, mcqs, userAnswers, isGenerating,
             currentQuestionIndex, score, error, mcqReq, mcqResp, lastGen>>

varsStore == <<authUid, books, conversations, chat_histories, mcq_rows,
               nextBookId, nsUsed, lastCascade>>

varsChat == <<version, bookId, book, messages, inputMessage, isLoading,
              conversationHistory, currentConversationId, bookFetch, histFetch,
              chatReq, chatResp, turns, saved, transcript, lastSettled>>

varsDash == <<uploadType, selectedFile, bookName, showUploadModal, isUploading,
              uploadProgress, progressTimer, timers, uploadReq, uploadResp,
              dashBooks, isLoadingBooks, booksFetches, wsUrl, wsTitle,
              wsIsLoading, alertShown, deleteReq, lastIssued>>

varsIngest == <<docText, chunkSize, chunkOverlap, chunks, vectorIndex, upserted,
                ingests>>

varsApp == <<appVersion, pathname, isDarkTheme, isMobileMenuOpen, screen>>

vars == <<user, varsMCQ, varsStore, varsChat, varsDash, varsIngest, varsApp>>

\* what the actions of one part leave alone
notMCQ == <<varsApp, varsStore, varsChat, varsDash, varsIngest>>
notStore == <<varsApp, user, varsMCQ, varsChat, varsDash, varsIngest>>
notChat == <<varsApp, user, varsMCQ, varsStore, varsDash, varsIngest>>
notDash == <<varsApp, user, varsMCQ, varsStore, varsChat, varsIngest>>
notIngest == <<varsApp, user, varsMCQ, varsStore, varsChat, varsDash>>
notApp == <<varsMCQ, varsStore, varsChat, varsDash, varsIngest>>

(***************************************************************************)
(* Bounds of the model.                                                    *)
(***************************************************************************)
MaxResp == 2      \* longest mcqs array the server returns
MaxBooks == 2     \* books rows ever inserted
MaxChildRows == 1 \* rows of conversations, chat_histories and mcqs together
MaxSends == 2     \* messages sent in one chat view
MaxSaved == 1     \* conversations saved by New Chat in one chat view
MaxFetches == 2   \* GET /books requests of the dashboard in flight at once
MaxTextLen == 4   \* longest extracted text, in characters
MaxChunkSize == 3 \* largest chunk size, in characters
MaxIngests == 2   \* ingestions of one content item

(***************************************************************************)
(* JavaScript values.  A number is kept in tenths (n = 10 * value) so that *)
(* a non-integral number such as 1.5 is a value of the model.              *)
(***************************************************************************)
Undefined == [t |-> "undefined", n |-> 0, s |-> ""]
JsNull == [t |-> "null", n |-> 0, s |-> ""]
Num(k) == [t |-> "number", n |-> 10 * k, s |-> ""]
Tenths(k) == [t |-> "number", n |-> k, s |-> ""]
Str(x) == [t |-> "string", n |-> 0, s |-> x]

Truthy(x) ==
    CASE x.t = "number" -> x.n # 0
      [] x.t = "string" -> x.s # ""
      [] OTHER -> FALSE

IsInteger(x) == x.t = "number" /\ x.n % 10 = 0

\* String(x) for the values used as property keys
ToKey(x) ==
    CASE x.t = "undefined" -> "undefined"
      [] x.t = "null" -> "null"
      [] x.t = "string" -> x.s
      [] x.t = "number" /\ x.n = 10 -> "1"
      [] x.t = "number" /\ x.n = 20 -> "2"
      [] x.t = "number" /\ x.n = 30 -> "3"
      [] OTHER -> "other"

Users == {"u1", "u2"}
DemoUser == "demo_user"
NoReq == [kind |-> "none"]

(***************************************************************************)
(* The items a /generate-mcqs response may carry: objects with any shape   *)
(* (the language model's output is not trusted), and null.                 *)
(***************************************************************************)
NumOptions == 4

Mcq(i, q, arr, len, ca) ==
    [isObject |-> TRUE, id |-> i, question |-> q,
     options |-> [isArray |-> arr, length |-> len], correct_answer |-> ca]

NullItem ==
    [isObject |-> FALSE, id |-> Undefined, question |-> Undefined,
     options |-> [isArray |-> FALSE, length |-> 0], correct_answer |-> Undefined]

McqPool ==
    { Mcq(Num(1), Str("Q1"), TRUE, 4, Num(0)),
      Mcq(Num(2), Str("Q2"), TRUE, 4, Num(3)),
      Mcq(Undefined, Str("Q3"), TRUE, 4, Num(1)),
      Mcq(Num(3), Str("Q4"), TRUE, 4, Tenths(15)),     \* correct_answer 1.5
      NullItem,
      Mcq(Num(1), Str(""), TRUE, 4, Num(1)),           \* empty question
      Mcq(Num(1), Str("Q5"), FALSE, 0, Num(1)),        \* options not an array
      Mcq(Num(1), Str("Q6"), TRUE, 3, Num(1)),         \* three options
      Mcq(Num(1), Str("Q7"), TRUE, 4, Str("1")),       \* correct_answer "1"
      Mcq(Num(1), Str("Q8"), TRUE, 4, Num(4)),         \* index out of range
      Mcq(Num(1), Str("Q9"), TRUE, 4, Num(-1)) }

SeqsUpTo(S, n) == UNION { [1..k -> S] : k \in 0..n }

\* the number-of-questions buttons of the config view
NumQuestionsChoices == {5, 10, 15}

\* an mcqs array with one valid item more than the smallest number of
\* questions that can be asked for
OverLongMcqs ==
    LET least == CHOOSE n \in NumQuestionsChoices :
                     \A m \in NumQuestionsChoices : n <= m
    IN [i \in 1..(least + 1) |-> Mcq(Num(1), Str("Q1"), TRUE, 4, Num(0))]

\* an mcqs array of three items with ids 1, 2 and 3
ThreeMcqs ==
    << Mcq(Num(1), Str("Q1"), TRUE, 4, Num(0)),
       Mcq(Num(2), Str("Q2"), TRUE, 4, Num(3)),
       Mcq(Num(3), Str("Q4"), TRUE, 4, Num(2)) >>

\* Bodies of an HTTP 200 answer of /generate-mcqs
McqBodies ==
    { [kind |-> "not_json", mcqs |-> <<>>],     \* response.json() throws
      [kind |-> "null", mcqs |-> <<>>],         \* JSON null, or a non-object
      [kind |-> "no_array", mcqs |-> <<>>] }    \* object without an mcqs array
    \cup { [kind |-> "list", mcqs |-> l] : l \in SeqsUpTo(McqPool, MaxResp) }
    \cup { [kind |-> "list", mcqs |-> OverLongMcqs] }
    \cup { [kind |-> "list", mcqs |-> ThreeMcqs] }

McqResponses ==
    { [kind |-> "network_error", status |-> 0, body |-> [kind |-> "null", mcqs |-> <<>>]],
      [kind |-> "http", status |-> 500, body |-> [kind |-> "null", mcqs |-> <<>>]],
      [kind |-> "http", status |-> 404, body |-> [kind |-> "null", mcqs |-> <<>>]] }
    \cup { [kind |-> "http", status |-> 200, body |-> b] : b \in McqBodies }


(***************************************************************************)
(* MCQGenerator: generateMCQs                                              *)
(***************************************************************************)
\* the filter predicate of validMcqs
IsValidMcq(mcq) ==
    /\ mcq.isObject
    /\ Truthy(mcq.question)
    /\ mcq.options.isArray
    /\ mcq.options.length = NumOptions
    /\ mcq.correct_answer.t = "number"
    /\ mcq.correct_answer.n >= 0
    /\ mcq.correct_answer.n < 10 * NumOptions

\* a filter that drops only the null items
ValidMcqs_OnlyNullDropped(list) == SelectSeq(list, LAMBDA mcq : mcq.isObject)

ValidMcqs(list) == SelectSeq(list, IsValidMcq)

ResponseOk(resp) == resp.kind = "http" /\ resp.status \in 200..299

NoThrow == [name |-> "", message |-> ""]

\* what the try block of generateMCQs throws on a response (NoThrow: nothing)
Thrown(resp) ==
    CASE resp.kind = "network_error" ->
            [name |-> "TypeError", message |-> "Failed to fetch"]
      [] ~ResponseOk(resp) /\ resp.status = 500 ->
            [name |-> "Error", message |-> "Failed to generate MCQs: 500 - "]
      [] ~ResponseOk(resp) ->
            [name |-> "Error", message |-> "Failed to generate MCQs: 404 - "]
      [] resp.body.kind = "not_json" ->
            [name |-> "SyntaxError", message |-> "Unexpected token in JSON"]
      [] resp.body.kind = "null" ->
            [name |-> "Error", message |-> "Invalid response format received from server"]
      [] resp.body.kind = "no_array" ->
            [name |-> "Error", message |-> "No MCQs array found in response"]
      [] Len(resp.body.mcqs) = 0 ->
            [name |-> "Error",
             message |-> "No MCQs were generated. Please try again or check if the book has content."]
      [] Len(ValidMcqs(resp.body.mcqs)) = 0 ->
            [name |-> "Error", message |-> "No valid MCQs found in the response"]
      [] OTHER -> NoThrow

\* the catch block's choice of the text shown to the user
ErrorText(err) ==
    CASE err.name = "TypeError" /\ err.message = "Failed to fetch" ->
            "Unable to connect to the server. Please check if the backend is running."
      [] err.message = "Failed to generate MCQs: 500 - " ->
            "Server error occurred. The AI service might be temporarily unavailable."
      [] err.message = "No MCQs were generated. Please try again or check if the book has content." ->
            "The selected book appears to have no content. Please try uploading the book again."
      [] OTHER -> err.message

NoError == "null"
NoScore == [isNull |-> TRUE, correct |-> 0, total |-> 0, percentage |-> 0]
Difficulties == {"easy", "medium", "hard"}
Books == {"b1", "b2"}
AnswerKeys == {"1", "2", "3", "undefined"}
NoGen == [received |-> 0, kept |-> 0]
NoAnswers == [k \in AnswerKeys |-> Undefined]

\* the identity the request is sent under
McqRequestUser == DemoUser

\* click on "Generate N MCQs" (config view): lines 19-36
GenerateMCQs ==
    /\ error = NoError /\ step = "config"
    /\ isGenerating' = TRUE
    /\ step' = "generating"
    /\ error' = NoError
    /\ mcqReq' = [kind |-> "generate-mcqs", book_id |-> quizBook,
                  num_questions |-> config.numQuestions,
                  difficulty |-> config.difficulty,
                  user_id |-> McqRequestUser]
    /\ UNCHANGED notMCQ
    /\ UNCHANGED <<user, quizBook, config, mcqs, userAnswers, currentQuestionIndex,
                   score, mcqResp, lastGen>>

\* the backend (or the network) answers the request
McqServerRespond ==
    /\ mcqReq # NoReq
    /\ \E r \in McqResponses : mcqResp' = r
    /\ mcqReq' = NoReq
    /\ UNCHANGED notMCQ
    /\ UNCHANGED <<user, quizBook, step, config, mcqs, userAnswers, isGenerating,
                   currentQuestionIndex, score, error, lastGen>>

\* generateMCQs: setStep('quiz') at the end of try, setStep('config') in catch
StepAfterSettle_QuizAlways(err) == "quiz"

StepAfterSettle(err) == IF err = NoThrow THEN "quiz" ELSE "config"

\* the rest of generateMCQs once fetch has settled: lines 38-94
GenerateMCQsSettle ==
    /\ mcqResp # NoReq
    /\ IF Thrown(mcqResp) = NoThrow
       THEN /\ mcqs' = ValidMcqs(mcqResp.body.mcqs)
            /\ error' = error
       ELSE /\ error' = ErrorText(Thrown(mcqResp))
            /\ mcqs' = mcqs
    /\ step' = StepAfterSettle(Thrown(mcqResp))
    /\ isGenerating' = FALSE
    /\ mcqResp' = NoReq
    /\ lastGen' = IF ResponseOk(mcqResp) /\ mcqResp.body.kind = "list"
                  THEN [received |-> Len(mcqResp.body.mcqs),
                        kept |-> Len(ValidMcqs(mcqResp.body.mcqs))]
                  ELSE NoGen
    /\ UNCHANGED notMCQ
    /\ UNCHANGED <<user, quizBook, config, userAnswers, currentQuestionIndex, score, mcqReq>>


\* "Try Again" on the error view: line 203
DismissError ==
    /\ error # NoError
    /\ error' = NoError
    /\ UNCHANGED notMCQ
    /\ UNCHANGED <<user, quizBook, step, config, mcqs, userAnswers, isGenerating,
                   currentQuestionIndex, score, mcqReq, mcqResp, lastGen>>

\* the number-of-questions and difficulty buttons of the config view
SetNumQuestions(num) ==
    /\ error = NoError /\ step = "config"
    /\ config' = [config EXCEPT !.numQuestions = num]
    /\ UNCHANGED notMCQ
    /\ UNCHANGED <<user, quizBook, step, mcqs, userAnswers, isGenerating,
                   currentQuestionIndex, score, error, mcqReq, mcqResp, lastGen>>

SetDifficulty(d) ==
    /\ error = NoError /\ step = "config"
    /\ config' = [config EXCEPT !.difficulty = d]
    /\ UNCHANGED notMCQ
    /\ UNCHANGED <<user, quizBook, step, mcqs, userAnswers, isGenerating,
                   currentQuestionIndex, score, error, mcqReq, mcqResp, lastGen>>

QuizShown == error = NoError /\ step = "quiz" /\ Len(mcqs) > 0

\* click on an option of the current question: lines 118-123, 437
HandleAnswerSelect(answerIndex) ==
    /\ QuizShown
    /\ answerIndex \in 0..(mcqs[currentQuestionIndex + 1].options.length - 1)
    /\ userAnswers' = [userAnswers EXCEPT
                         ![ToKey(mcqs[currentQuestionIndex + 1].id)] = Num(answerIndex)]
    /\ UNCHANGED notMCQ
    /\ UNCHANGED <<user, quizBook, step, config, mcqs, isGenerating,
                   currentQuestionIndex, score, error, mcqReq, mcqResp, lastGen>>

\* "Previous": lines 468-470
PreviousQuestion ==
    /\ QuizShown
    /\ currentQuestionIndex # 0
    /\ currentQuestionIndex' = IF currentQuestionIndex - 1 > 0
                               THEN currentQuestionIndex - 1 ELSE 0
    /\ UNCHANGED notMCQ
    /\ UNCHANGED <<user, quizBook, step, config, mcqs, userAnswers, isGenerating,
                   score, error, mcqReq, mcqResp, lastGen>>

\* "Next": lines 490-496
NextQuestion ==
    /\ QuizShown
    /\ currentQuestionIndex # Len(mcqs) - 1
    /\ currentQuestionIndex' = currentQuestionIndex + 1
    /\ UNCHANGED notMCQ
    /\ UNCHANGED <<user, quizBook, step, config, mcqs, userAnswers, isGenerating,
                   score, error, mcqReq, mcqResp, lastGen>>

\* Object.keys(userAnswers).length
NumAnswered == Cardinality({k \in AnswerKeys : userAnswers[k] # Undefined})

RECURSIVE CorrectCount(_)
CorrectCount(list) ==
    IF list = <<>> THEN 0
    ELSE (IF userAnswers[ToKey(Head(list).id)] = Head(list).correct_answer THEN 1 ELSE 0)
         + CorrectCount(Tail(list))

\* Math.round((c / t) * 100)
Percentage_Floor(c, t) == (100 * c) \div t

Percentage(c, t) == (200 * c + t) \div (2 * t)

\* "Submit Quiz": lines 125-141, 482-485
SubmitQuiz ==
    /\ QuizShown
    /\ currentQuestionIndex = Len(mcqs) - 1
    /\ NumAnswered = Len(mcqs)
    /\ score' = [isNull |-> FALSE, correct |-> CorrectCount(mcqs), total |-> Len(mcqs),
                 percentage |-> Percentage(CorrectCount(mcqs), Len(mcqs))]
    /\ step' = "results"
    /\ UNCHANGED notMCQ
    /\ UNCHANGED <<user, quizBook, config, mcqs, userAnswers, isGenerating,
                   currentQuestionIndex, error, mcqReq, mcqResp, lastGen>>

\* resetQuiz: setCurrentQuestionIndex(0)
IndexAfterReset_Kept(index) == index

IndexAfterReset(index) == 0

\* "Generate New Quiz" on the results view: lines 143-149
ResetQuiz ==
    /\ error = NoError /\ step = "results"
    /\ step' = "config"
    /\ mcqs' = <<>>
    /\ userAnswers' = NoAnswers
    /\ score' = NoScore
    /\ currentQuestionIndex' = IndexAfterReset(currentQuestionIndex)
    /\ UNCHANGED notMCQ
    /\ UNCHANGED <<user, quizBook, config, isGenerating, error, mcqReq, mcqResp, lastGen>>

InitMCQVars ==
    /\ step = "config"
    /\ config = [numQuestions |-> 10, difficulty |-> "medium"]
    /\ mcqs = <<>>
    /\ userAnswers = NoAnswers
    /\ isGenerating = FALSE
    /\ currentQuestionIndex = 0
    /\ score = NoScore
    /\ error = NoError
    /\ mcqReq = NoReq
    /\ mcqResp = NoReq
    /\ lastGen = NoGen


(***************************************************************************)
(* The relational store: tables, constraints and row-level policies of     *)
(* SUPABASE_SCHEMA_ENHANCED.sql.  A row keeps the columns the constraints, *)
(* the policies, the function and the view read: the keys, user_id,        *)
(* status, pinecone_namespace, and a chat message's content.               *)
(* Statements are issued by the session whose auth.uid() is authUid.       *)
(***************************************************************************)
StatusValues == {"processing", "processed", "failed"}    \* CHECK (status IN ...)
DefaultStatus == "processing"                            \* DEFAULT 'processing'
NullNs == "NULL"
Namespaces == {"ns1", "ns2"}
NullId == 0                                              \* NULL conversation_id
Contents == {"c1", "c2"}

BookIds == 1..MaxBooks
ChildIds == 1..MaxChildRows

\* the policies: USING / WITH CHECK (auth.uid() = user_id)
PolicyUsing(uid, row) == uid = row.user_id
PolicyCheck(uid, row) == uid = row.user_id

LiveBookIds == {b.id : b \in books}
BookRow(id) == CHOOSE b \in books : b.id = id

\* pinecone_namespace TEXT UNIQUE: no two rows hold the same non-null value
NsFree(ns, exceptId) ==
    ns = NullNs \/ \A b \in books : b.id = exceptId \/ b.pinecone_namespace # ns

NumChildRows ==
    Cardinality(conversations) + Cardinality(chat_histories) + Cardinality(mcq_rows)

FreeChildId(rows) == CHOOSE i \in ChildIds : \A r \in rows : r.id # i

\* INSERT INTO books
InsertBook(owner, status, ns) ==
    /\ nextBookId <= MaxBooks
    /\ PolicyCheck(authUid, [user_id |-> owner])
    /\ status \in StatusValues
    /\ NsFree(ns, NullId)
    /\ books' = books \cup {[id |-> nextBookId, user_id |-> owner,
                             status |-> status, pinecone_namespace |-> ns]}
    /\ nextBookId' = nextBookId + 1
    /\ nsUsed' = IF ns = NullNs THEN nsUsed ELSE nsUsed \cup {<<nextBookId, ns>>}
    /\ UNCHANGED notStore
    /\ UNCHANGED <<authUid, conversations, chat_histories, mcq_rows, lastCascade>>

\* UPDATE books SET user_id, status, pinecone_namespace WHERE id = ...
UpdateBook(id, owner, status, ns) ==
    /\ id \in LiveBookIds
    /\ PolicyUsing(authUid, BookRow(id))
    /\ PolicyCheck(authUid, [user_id |-> owner])
    /\ status \in StatusValues
    /\ NsFree(ns, id)
    /\ books' = (books \ {BookRow(id)})
                  \cup {[id |-> id, user_id |-> owner, status |-> status,
                         pinecone_namespace |-> ns]}
    /\ books' # books
    /\ nsUsed' = IF ns = NullNs THEN nsUsed ELSE nsUsed \cup {<<id, ns>>}
    /\ UNCHANGED notStore
    /\ UNCHANGED <<authUid, conversations, chat_histories, mcq_rows, nextBookId,
                   lastCascade>>

\* the rows ON DELETE CASCADE removes with a set of books / of conversations
CascadeConversations(bookIds) == {c \in conversations : c.book_id \in bookIds}
\* a cascade that follows conversation_id only
CascadeChats_ConversationOnly(bookIds, convIds) ==
    {h \in chat_histories : h.conversation_id \in convIds}

CascadeChats(bookIds, convIds) ==
    {h \in chat_histories : h.book_id \in bookIds \/ h.conversation_id \in convIds}
CascadeMcqs(bookIds) == {m \in mcq_rows : m.book_id \in bookIds}

\* DELETE FROM books WHERE id = ...
DeleteBook(id) ==
    /\ id \in LiveBookIds
    /\ PolicyUsing(authUid, BookRow(id))
    /\ books' = books \ {BookRow(id)}
    /\ LET convs == CascadeConversations({id})
           chats == CascadeChats({id}, {c.id : c \in convs})
           qs == CascadeMcqs({id})
       IN /\ conversations' = conversations \ convs
          /\ chat_histories' = chat_histories \ chats
          /\ mcq_rows' = mcq_rows \ qs
          /\ lastCascade' = Cardinality(convs) + Cardinality(chats) + Cardinality(qs)
    /\ UNCHANGED notStore
    /\ UNCHANGED <<authUid, nextBookId, nsUsed>>

\* INSERT INTO conversations (book_id REFERENCES books)
InsertConversation(book_id, owner) ==
    /\ NumChildRows < MaxChildRows
    /\ PolicyCheck(authUid, [user_id |-> owner])
    /\ book_id \in LiveBookIds
    /\ conversations' = conversations \cup
          {[id |-> FreeChildId(conversations), book_id |-> book_id, user_id |-> owner]}
    /\ UNCHANGED notStore
    /\ UNCHANGED <<authUid, books, chat_histories, mcq_rows, nextBookId, nsUsed,
                   lastCascade>>

\* UPDATE conversations SET book_id WHERE id = ...
UpdateConversation(c, book_id) ==
    /\ c \in conversations
    /\ PolicyUsing(authUid, c)
    /\ book_id \in LiveBookIds /\ book_id # c.book_id
    /\ conversations' = (conversations \ {c}) \cup {[c EXCEPT !.book_id = book_id]}
    /\ UNCHANGED notStore
    /\ UNCHANGED <<authUid, books, chat_histories, mcq_rows, nextBookId, nsUsed,
                   lastCascade>>

\* DELETE FROM conversations WHERE id = ...
DeleteConversation(c) ==
    /\ c \in conversations
    /\ PolicyUsing(authUid, c)
    /\ conversations' = conversations \ {c}
    /\ chat_histories' = chat_histories \ CascadeChats({}, {c.id})
    /\ UNCHANGED notStore
    /\ UNCHANGED <<authUid, books, mcq_rows, nextBookId, nsUsed, lastCascade>>

\* INSERT INTO chat_histories (conversation_id may be NULL)
InsertChat(conv, book_id, owner, content) ==
    /\ NumChildRows < MaxChildRows
    /\ PolicyCheck(authUid, [user_id |-> owner])
    /\ book_id \in LiveBookIds
    /\ conv = NullId \/ conv \in {c.id : c \in conversations}
    /\ chat_histories' = chat_histories \cup
          {[id |-> FreeChildId(chat_histories), conversation_id |-> conv,
            book_id |-> book_id, user_id |-> owner, content |-> content]}
    /\ UNCHANGED notStore
    /\ UNCHANGED <<authUid, books, conversations, mcq_rows, nextBookId, nsUsed,
                   lastCascade>>

\* UPDATE chat_histories SET content WHERE id = ...
UpdateChat(h, content) ==
    /\ h \in chat_histories
    /\ PolicyUsing(authUid, h)
    /\ content # h.content
    /\ chat_histories' = (chat_histories \ {h}) \cup {[h EXCEPT !.content = content]}
    /\ UNCHANGED notStore
    /\ UNCHANGED <<authUid, books, conversations, mcq_rows, nextBookId, nsUsed,
                   lastCascade>>

\* DELETE FROM chat_histories WHERE id = ...
DeleteChat(h) ==
    /\ h \in chat_histories
    /\ PolicyUsing(authUid, h)
    /\ chat_histories' = chat_histories \ {h}
    /\ UNCHANGED notStore
    /\ UNCHANGED <<authUid, books, conversations, mcq_rows, nextBookId, nsUsed,
                   lastCascade>>

\* INSERT INTO mcqs (book_id REFERENCES books)
InsertMcq(book_id, owner) ==
    /\ NumChildRows < MaxChildRows
    /\ PolicyCheck(authUid, [user_id |-> owner])
    /\ book_id \in LiveBookIds
    /\ mcq_rows' = mcq_rows \cup
          {[id |-> FreeChildId(mcq_rows), book_id |-> book_id, user_id |-> owner]}
    /\ UNCHANGED notStore
    /\ UNCHANGED <<authUid, books, conversations, chat_histories, nextBookId, nsUsed,
                   lastCascade>>

\* UPDATE mcqs SET book_id WHERE id = ...
UpdateMcq(m, book_id) ==
    /\ m \in mcq_rows
    /\ PolicyUsing(authUid, m)
    /\ book_id \in LiveBookIds /\ book_id # m.book_id
    /\ mcq_rows' = (mcq_rows \ {m}) \cup {[m EXCEPT !.book_id = book_id]}
    /\ UNCHANGED notStore
    /\ UNCHANGED <<authUid, books, conversations, chat_histories, nextBookId, nsUsed,
                   lastCascade>>

\* DELETE FROM mcqs WHERE id = ...
DeleteMcq(m) ==
    /\ m \in mcq_rows
    /\ PolicyUsing(authUid, m)
    /\ mcq_rows' = mcq_rows \ {m}
    /\ UNCHANGED notStore
    /\ UNCHANGED <<authUid, books, conversations, chat_histories, nextBookId, nsUsed,
                   lastCascade>>

\* another user's session issues the next statements
SwitchSession(u) ==
    /\ u # authUid
    /\ authUid' = u
    /\ UNCHANGED notStore
    /\ UNCHANGED <<books, conversations, chat_histories, mcq_rows, nextBookId, nsUsed,
                   lastCascade>>


(***************************************************************************)
(* What a session can read.  db is a record of the four tables.            *)
(***************************************************************************)
DB == [books |-> books, conversations |-> conversations,
       chat_histories |-> chat_histories, mcqs |-> mcq_rows]

\* SELECT * FROM <table> under the table's FOR SELECT policy
SelectRows(uid, rows) == {r \in rows : PolicyUsing(uid, r)}

ProcessedBooksOf(db, u) ==
    {b \in db.books : b.user_id = u /\ b.status = "processed"}
ConversationsOf(db, u) == {c \in db.conversations : c.user_id = u}
McqsOf(db, u) == {m \in db.mcqs : m.user_id = u}

\* SELECT * FROM get_user_content_stats(user_uuid): SECURITY DEFINER, so the
\* policies do not apply inside, and user_uuid is whatever the caller passes
\* (the counts; documents_by_type and storage_used aggregate the same rows)
GetUserContentStats(db, user_uuid) ==
    [total_documents |-> Cardinality(ProcessedBooksOf(db, user_uuid)),
     total_conversations |-> Cardinality(ConversationsOf(db, user_uuid)),
     total_mcqs |-> Cardinality(McqsOf(db, user_uuid))]

AtLeastOne(n) == IF n = 0 THEN 1 ELSE n

\* SELECT * FROM user_content_overview: the view reads the tables as its
\* owner, so the policies do not filter its rows; the three LEFT JOINs
\* multiply the rows each COUNT sees
UserContentOverview(db) ==
    { LET nb == Cardinality(ProcessedBooksOf(db, u))
          nc == Cardinality(ConversationsOf(db, u))
          nm == Cardinality(McqsOf(db, u))
      IN [user_id |-> u,
          total_documents |-> nb * AtLeastOne(nc) * AtLeastOne(nm),
          total_conversations |-> AtLeastOne(nb) * nc * AtLeastOne(nm),
          total_mcqs |-> AtLeastOne(nb) * AtLeastOne(nc) * nm]
      : u \in Users }

\* everything the session of uid can read through the schema
ReadableBy(uid, db) ==
    [books |-> SelectRows(uid, db.books),
     conversations |-> SelectRows(uid, db.conversations),
     chat_histories |-> SelectRows(uid, db.chat_histories),
     mcqs |-> SelectRows(uid, db.mcqs),
     stats |-> [x \in Users |-> GetUserContentStats(db, x)],
     overview |-> UserContentOverview(db)]

DeletedBookIds == (1..(nextBookId - 1)) \ LiveBookIds

\* the backend's answer to POST /chat for a book id (the backend's source is
\* not part of the sources; after the specification, sections 4.4 and 8)
ChatRequestResult(uid, id) ==
    IF \A b \in books : ~(b.id = id /\ b.user_id = uid) THEN "not_found"
    ELSE IF \E b \in books : b.id = id /\ b.status # "processed" THEN "not_ready"
    ELSE "answer"

InitStoreVars ==
    /\ authUid = "u1"
    /\ books = {}
    /\ conversations = {}
    /\ chat_histories = {}
    /\ mcq_rows = {}
    /\ nextBookId = 1
    /\ nsUsed = {}
    /\ lastCascade = 0


(***************************************************************************)
(* The chat view (ChatInterface).  The repository holds two versions of    *)
(* the component: the current one, which keeps a list of conversations,    *)
(* and an earlier one with the message list alone.  The variable version   *)
(* says which one is mounted.  The sidebar, theme and quiz-dialog flags    *)
(* are presentation state and are left out.                                *)
(*                                                                         *)
(* A string is kept as its body and the number of whitespace characters    *)
(* before and after it; n is the length of the body and dots tells that    *)
(* '...' was appended.                                                     *)
(***************************************************************************)
Text(lead, body, n, trail) ==
    [lead |-> lead, body |-> body, n |-> n, trail |-> trail, dots |-> FALSE]

EmptyText == Text(0, "", 0, 0)
\* data.response of a body without that property
UndefinedText == Text(0, "undefined", 0, 0)

\* String.prototype.trim
Trim(t) == [t EXCEPT !.lead = 0, !.trail = 0]
\* !s.trim(): the trimmed string is empty
IsBlank(t) == Trim(t) = EmptyText
\* s.length
StrLength(t) == t.lead + t.n + t.trail + (IF t.dots THEN 3 ELSE 0)

Min(a, b) == IF a < b THEN a ELSE b

\* s.substring(0, k)
Substring0(t, k) ==
    LET l == Min(t.lead, k)
        m == Min(t.n, k - l)
        r == Min(t.trail, k - l - m)
    IN [lead |-> l, body |-> t.body, n |-> m, trail |-> r, dots |-> FALSE]

TitleMax == 40

\* s.length > 40 ? s.substring(0, 40) + '...' : s
ShortTitle(t) ==
    IF StrLength(t) > TitleMax
    THEN [Substring0(t, TitleMax) EXCEPT !.dots = TRUE]
    ELSE t

FallbackText ==
    Text(0, "Sorry, I encountered an error while processing your message. Please try again.",
         78, 0)
NewConversationTitle == Text(0, "New conversation", 16, 0)
Suggestion == Text(0, "What is this book about?", 24, 0)
AnswerText == Text(0, "answer", 6, 0)

\* what the user may type into the input field
Inputs ==
    { Text(2, "", 0, 0),                       \* blanks only
      Text(1, "a long question", 45, 1) }

\* the texts an error carries: the bodies of the backend's error answers and
\* the messages of the errors thrown in sendMessage
RawErrorTexts ==
    { Text(0, "Book not found", 14, 0),
      Text(0, "Book is not processed", 21, 0),
      Text(0, "Traceback: upstream service unavailable", 39, 0),
      Text(0, "Failed to get response", 22, 0),
      Text(0, "Failed to fetch", 15, 0) }

NullUser == "null"
\* user?.id || 'demo_user'
RequestUserId(u) == IF u = NullUser THEN DemoUser ELSE u

\* a chat message; turn numbers the send the message belongs to and stands
\* for the timestamp, sources tells that the message carries data.sources
Message(role, content, turn, sources) ==
    [role |-> role, content |-> content, turn |-> turn, sources |-> sources]

\* [...list, msg]
AppendMessage_Prepend(list, msg) == <<msg>> \o list

AppendMessage(list, msg) == Append(list, msg)

\* list.filter(m => m.role === 'user').length
UserCount_AllRoles(list) == Len(list)

UserCount(list) == Len(SelectSeq(list, LAMBDA m : m.role = "user"))

\* list.find(m => m.role === 'user')?.content || 'New conversation'
ConversationTitle(list) ==
    LET us == SelectSeq(list, LAMBDA m : m.role = "user")
    IN IF us = <<>> \/ StrLength(us[1].content) = 0
       THEN NewConversationTitle
       ELSE us[1].content

\* conversation ids: 'current', conv_<Date.now()>, and null
CurrentId == 0
NullConvId == -1
SavedId(k) == k

Conversation(id, title, count, list) ==
    [id |-> id, title |-> title, messageCount |-> count, messages |-> list]

NullBook == [id |-> 0, status |-> "null"]
UndefinedBook == [id |-> 0, status |-> "undefined"]
\* the chat view is rendered once book is set (if (!book) shows the loader)
ChatShown == book.id # 0

(***************************************************************************)
(* The backend as the chat view sees it.  Its handlers are not among the   *)
(* sources; they follow the specification (sections 4.4, 6 and 8).         *)
(***************************************************************************)
\* GET /books?user_id: the user's books
BooksResult(uid) == {[id |-> b.id, status |-> b.status] : b \in {r \in books : r.user_id = uid}}

\* a stored chat message: the message and the book it belongs to
StoredRow(id, m) == [book_id |-> id, message |-> m]

\* GET /chat-history/{book_id}?user_id: the stored messages of the user's
\* book in creation order, none when the user has no such book
ChatHistoryResult(uid, id) ==
    IF \E b \in books : b.id = id /\ b.user_id = uid
    THEN LET rows == SelectSeq(transcript, LAMBDA r : r.book_id = id)
         IN [i \in DOMAIN rows |-> rows[i].message]
    ELSE <<>>

ItemStatus(id) ==
    IF id \in LiveBookIds THEN BookRow(id).status ELSE "absent"

\* the backend handles POST /chat: an answer for a processed book of the
\* user, which is stored with the question; an error otherwise
ChatServerRespond ==
    /\ chatReq # NoReq
    /\ chatResp = NoReq
    /\ LET r == ChatRequestResult(chatReq.user_id, chatReq.book_id)
           st == ItemStatus(chatReq.book_id)
           q == Message("user", chatReq.message, chatReq.turn, FALSE)
           a == Message("assistant", AnswerText, chatReq.turn, TRUE)
       IN \/ /\ r = "answer"
             /\ chatResp' = [kind |-> "http", status |-> 200, itemStatus |-> st,
                             response |-> AnswerText,
                             detail |-> EmptyText]
             /\ transcript' = transcript \o <<StoredRow(chatReq.book_id, q),
                                              StoredRow(chatReq.book_id, a)>>
          \/ /\ r = "answer"
             /\ chatResp' = [kind |-> "http", status |-> 500, itemStatus |-> st,
                             response |-> UndefinedText,
                             detail |-> Text(0, "Traceback: upstream service unavailable", 39, 0)]
             /\ UNCHANGED transcript
          \/ /\ r = "not_ready"
             /\ chatResp' = [kind |-> "http", status |-> 400, itemStatus |-> st,
                             response |-> UndefinedText,
                             detail |-> Text(0, "Book is not processed", 21, 0)]
             /\ UNCHANGED transcript
          \/ /\ r = "not_found"
             /\ chatResp' = [kind |-> "http", status |-> 404, itemStatus |-> st,
                             response |-> UndefinedText,
                             detail |-> Text(0, "Book not found", 14, 0)]
             /\ UNCHANGED transcript
    /\ UNCHANGED notChat
    /\ UNCHANGED <<version, bookId, book, messages, inputMessage, isLoading,
                   conversationHistory, currentConversationId, bookFetch,
                   histFetch, chatReq, turns, saved, lastSettled>>

\* the backend answers GET /books
BooksServerRespond ==
    /\ bookFetch = [kind |-> "sent"]
    /\ bookFetch' = [kind |-> "http", books |-> BooksResult(RequestUserId(user))]
    /\ UNCHANGED notChat
    /\ UNCHANGED <<version, bookId, book, messages, inputMessage, isLoading,
                   conversationHistory, currentConversationId, histFetch,
                   chatReq, chatResp, turns, saved, transcript, lastSettled>>

\* the backend answers GET /chat-history
HistoryServerRespond ==
    /\ histFetch = [kind |-> "sent"]
    /\ histFetch' = [kind |-> "http",
                     chat_history |-> ChatHistoryResult(RequestUserId(user), bookId)]
    /\ UNCHANGED notChat
    /\ UNCHANGED <<version, bookId, book, messages, inputMessage, isLoading,
                   conversationHistory, currentConversationId, bookFetch,
                   chatReq, chatResp, turns, saved, transcript, lastSettled>>

(***************************************************************************)
(* Handlers shared by the two versions                                     *)
(***************************************************************************)
\* fetch rejects: no answer reaches the component
NetworkError == [kind |-> "network_error"]

\* fetchBookInfo: a fetch that rejects is logged, book stays null
FetchBookInfoFails ==
    /\ bookFetch = [kind |-> "sent"]
    /\ bookFetch' = NoReq
    /\ UNCHANGED notChat
    /\ UNCHANGED <<version, bookId, book, messages, inputMessage, isLoading,
                   conversationHistory, currentConversationId, histFetch,
                   chatReq, chatResp, turns, saved, transcript, lastSettled>>

\* fetchBookInfo, from the response on: setBook(data.books?.find(...))
FetchBookInfo ==
    /\ bookFetch # NoReq
    /\ bookFetch.kind = "http"
    /\ book' = IF \E b \in bookFetch.books : b.id = bookId
               THEN CHOOSE b \in bookFetch.books : b.id = bookId
               ELSE UndefinedBook
    /\ bookFetch' = NoReq
    /\ UNCHANGED notChat
    /\ UNCHANGED <<version, bookId, messages, inputMessage, isLoading,
                   conversationHistory, currentConversationId, histFetch,
                   chatReq, chatResp, turns, saved, transcript, lastSettled>>

\* the route changes to another book while the view stays mounted: the
\* effect on [bookId] calls fetchBookInfo and loadAllConversations (or
\* fetchChatHistory); taken once the loads of the book shown have completed
ChangeBook(id) ==
    /\ id # bookId
    /\ bookFetch = NoReq
    /\ histFetch = NoReq
    /\ bookId' = id
    /\ bookFetch' = [kind |-> "sent"]
    /\ histFetch' = [kind |-> "sent"]
    /\ UNCHANGED notChat
    /\ UNCHANGED <<version, book, messages, inputMessage, isLoading,
                   conversationHistory, currentConversationId, chatReq, chatResp,
                   turns, saved, transcript, lastSettled>>

\* the fetch of POST /chat rejects
ChatNetworkError ==
    /\ chatReq # NoReq
    /\ chatResp = NoReq
    /\ chatResp' = NetworkError
    /\ UNCHANGED notChat
    /\ UNCHANGED <<version, bookId, book, messages, inputMessage, isLoading,
                   conversationHistory, currentConversationId, bookFetch,
                   histFetch, chatReq, turns, saved, transcript, lastSettled>>

\* the input field: onChange, disabled while isLoading
SetInputMessage(txt) ==
    /\ ChatShown
    /\ ~isLoading
    /\ inputMessage' = txt
    /\ UNCHANGED notChat
    /\ UNCHANGED <<version, bookId, book, messages, isLoading,
                   conversationHistory, currentConversationId, bookFetch,
                   histFetch, chatReq, chatResp, turns, saved, transcript,
                   lastSettled>>

\* the suggested question, offered while the message list is empty
SuggestQuestion ==
    /\ ChatShown
    /\ Len(messages) = 0
    /\ inputMessage' = Suggestion
    /\ UNCHANGED notChat
    /\ UNCHANGED <<version, bookId, book, messages, isLoading,
                   conversationHistory, currentConversationId, bookFetch,
                   histFetch, chatReq, chatResp, turns, saved, transcript,
                   lastSettled>>

\* sendMessage: if (!inputMessage.trim() || isLoading) return;
SendRefused_BlankOnly(input, loading) == IsBlank(input)

SendRefused(input, loading) == IsBlank(input) \/ loading

\* sendMessage: chat_history: messages, the list of the render the handler
\* was called in
ChatHistoryBody_WithQuestion(list, newUserMessage) == Append(list, newUserMessage)

ChatHistoryBody(list, newUserMessage) == list

\* sendMessage: what the try block throws for an outcome of the fetch
ChatThrown_NoOkCheck(resp) ==
    IF resp.kind = "network_error"
    THEN [name |-> "TypeError", message |-> "Failed to fetch"]
    ELSE NoThrow

ChatThrown(resp) ==
    IF resp.kind = "network_error"
    THEN [name |-> "TypeError", message |-> "Failed to fetch"]
    ELSE IF ~ResponseOk(resp)
    THEN [name |-> "Error", message |-> "Failed to get response"]
    ELSE NoThrow

\* the status of the book behind an outcome of the fetch
SettledStatus(resp) ==
    IF resp.kind = "network_error" THEN "unknown" ELSE resp.itemStatus

\* sendMessage: aiMessage
AiMessage(resp, turn) == Message("assistant", resp.response, turn, TRUE)

\* sendMessage: errorMessage of the catch block (the error is only logged)
ErrorMessage(err, turn) == Message("assistant", FallbackText, turn, FALSE)

\* sendMessage: finally { setIsLoading(false) }, whatever was thrown
LoadingAfterSettle_TryOnly(err) == err # NoThrow

LoadingAfterSettle(err) == FALSE

(***************************************************************************)
(* The current ChatInterface                                               *)
(***************************************************************************)
\* the fetch of the chat history rejects: the error is logged
ChatHistoryFetchFails ==
    /\ histFetch = [kind |-> "sent"]
    /\ histFetch' = NoReq
    /\ UNCHANGED notChat
    /\ UNCHANGED <<version, bookId, book, messages, inputMessage, isLoading,
                   conversationHistory, currentConversationId, bookFetch,
                   chatReq, chatResp, turns, saved, transcript, lastSettled>>

\* loadAllConversations, from the response on
LoadAllConversations ==
    /\ version = "current"
    /\ histFetch # NoReq
    /\ histFetch.kind = "http"
    /\ LET allMessages == histFetch.chat_history
       IN IF Len(allMessages) > 0
          THEN /\ conversationHistory' =
                     <<Conversation(CurrentId, ShortTitle(ConversationTitle(allMessages)),
                                    UserCount(allMessages), allMessages)>>
               /\ messages' = allMessages
               /\ currentConversationId' = CurrentId
          ELSE UNCHANGED <<conversationHistory, messages, currentConversationId>>
    /\ histFetch' = NoReq
    /\ UNCHANGED notChat
    /\ UNCHANGED <<version, bookId, book, inputMessage, isLoading, bookFetch,
                   chatReq, chatResp, turns, saved, transcript, lastSettled>>

\* sendMessage, up to the fetch
SendMessage ==
    /\ version = "current"
    /\ ChatShown
    /\ ~SendRefused(inputMessage, isLoading)
    /\ turns < MaxSends
    /\ LET userMessage == Trim(inputMessage)
           newUserMessage == Message("user", userMessage, turns + 1, FALSE)
           updatedMessages == AppendMessage(messages, newUserMessage)
       IN /\ inputMessage' = EmptyText
          /\ isLoading' = TRUE
          /\ messages' = updatedMessages
          /\ IF Len(messages) = 0
             THEN /\ conversationHistory' =
                        <<Conversation(CurrentId, ShortTitle(userMessage), 1,
                                       updatedMessages)>>
                  /\ currentConversationId' = CurrentId
             ELSE UNCHANGED <<conversationHistory, currentConversationId>>
          /\ chatReq' = [kind |-> "sent", book_id |-> bookId,
                         message |-> userMessage,
                         user_id |-> RequestUserId(user),
                         chat_history |-> ChatHistoryBody(messages, newUserMessage),
                         updatedMessages |-> updatedMessages,
                         turn |-> turns + 1,
                         beforeNewChat |-> FALSE]
    /\ turns' = turns + 1
    /\ lastSettled' = "none"
    /\ UNCHANGED notChat
    /\ UNCHANGED <<version, bookId, book, bookFetch, histFetch, chatResp, saved,
                   transcript>>

\* sendMessage, from the outcome of the fetch on
SendMessageSettle ==
    /\ version = "current"
    /\ chatReq # NoReq
    /\ chatResp # NoReq
    /\ LET err == ChatThrown(chatResp)
           updatedMessages == chatReq.updatedMessages
       IN IF err = NoThrow
          THEN LET finalMessages ==
                       AppendMessage(updatedMessages, AiMessage(chatResp, chatReq.turn))
               IN /\ messages' = finalMessages
                  /\ conversationHistory' =
                        [i \in DOMAIN conversationHistory |->
                            IF conversationHistory[i].id = CurrentId
                            THEN [conversationHistory[i] EXCEPT
                                     !.messages = finalMessages,
                                     !.messageCount = UserCount(finalMessages)]
                            ELSE conversationHistory[i]]
          ELSE /\ messages' =
                     AppendMessage(updatedMessages, ErrorMessage(err, chatReq.turn))
               /\ UNCHANGED conversationHistory
    /\ isLoading' = LoadingAfterSettle(ChatThrown(chatResp))
    /\ lastSettled' = SettledStatus(chatResp)
    /\ chatReq' = NoReq
    /\ chatResp' = NoReq
    /\ UNCHANGED notChat
    /\ UNCHANGED <<version, bookId, book, inputMessage, currentConversationId,
                   bookFetch, histFetch, turns, saved, transcript>>

\* history: the request in flight, if any, was sent before this New Chat
MarkBeforeNewChat(req) ==
    IF req = NoReq THEN req ELSE [req EXCEPT !.beforeNewChat = TRUE]

\* newChat
NewChat ==
    /\ version = "current"
    /\ ChatShown
    /\ Len(messages) > 0 => saved < MaxSaved
    /\ IF Len(messages) > 0
       THEN /\ conversationHistory' =
                  <<Conversation(SavedId(saved + 1),
                                 ShortTitle(ConversationTitle(messages)),
                                 UserCount(messages), messages)>>
                  \o SelectSeq(conversationHistory, LAMBDA c : c.id # CurrentId)
            /\ saved' = saved + 1
       ELSE UNCHANGED <<conversationHistory, saved>>
    /\ messages' = <<>>
    /\ currentConversationId' = NullConvId
    /\ chatReq' = MarkBeforeNewChat(chatReq)
    /\ UNCHANGED notChat
    /\ UNCHANGED <<version, bookId, book, inputMessage, isLoading, bookFetch,
                   histFetch, chatResp, turns, transcript, lastSettled>>

\* loadConversation(conversation), from the Recent Conversations list
LoadConversation(i) ==
    /\ version = "current"
    /\ ChatShown
    /\ i \in DOMAIN conversationHistory
    /\ messages' = conversationHistory[i].messages
    /\ currentConversationId' = conversationHistory[i].id
    /\ UNCHANGED notChat
    /\ UNCHANGED <<version, bookId, book, inputMessage, isLoading,
                   conversationHistory, bookFetch, histFetch, chatReq, chatResp,
                   turns, saved, transcript, lastSettled>>

(***************************************************************************)
(* The earlier ChatInterface                                               *)
(***************************************************************************)
\* fetchChatHistory, from the response on
FetchChatHistory ==
    /\ version = "earlier"
    /\ histFetch # NoReq
    /\ histFetch.kind = "http"
    /\ messages' = histFetch.chat_history
    /\ histFetch' = NoReq
    /\ UNCHANGED notChat
    /\ UNCHANGED <<version, bookId, book, inputMessage, isLoading,
                   conversationHistory, currentConversationId, bookFetch,
                   chatReq, chatResp, turns, saved, transcript, lastSettled>>

\* sendMessage, up to the fetch
EarlierSendMessage ==
    /\ version = "earlier"
    /\ ChatShown
    /\ ~SendRefused(inputMessage, isLoading)
    /\ turns < MaxSends
    /\ LET userMessage == Trim(inputMessage)
           newUserMessage == Message("user", userMessage, turns + 1, FALSE)
       IN /\ inputMessage' = EmptyText
          /\ isLoading' = TRUE
          /\ messages' = AppendMessage(messages, newUserMessage)
          /\ chatReq' = [kind |-> "sent", book_id |-> bookId,
                         message |-> userMessage,
                         user_id |-> RequestUserId(user),
                         chat_history |-> ChatHistoryBody(messages, newUserMessage),
                         updatedMessages |-> <<>>,
                         turn |-> turns + 1,
                         beforeNewChat |-> FALSE]
    /\ turns' = turns + 1
    /\ lastSettled' = "none"
    /\ UNCHANGED notChat
    /\ UNCHANGED <<version, bookId, book, conversationHistory,
                   currentConversationId, bookFetch, histFetch, chatResp, saved,
                   transcript>>

\* sendMessage, from the outcome of the fetch on
EarlierSendMessageSettle ==
    /\ version = "earlier"
    /\ chatReq # NoReq
    /\ chatResp # NoReq
    /\ LET err == ChatThrown(chatResp)
       IN IF err = NoThrow
          THEN messages' = AppendMessage(messages, AiMessage(chatResp, chatReq.turn))
          ELSE messages' = AppendMessage(messages, ErrorMessage(err, chatReq.turn))
    /\ isLoading' = LoadingAfterSettle(ChatThrown(chatResp))
    /\ lastSettled' = SettledStatus(chatResp)
    /\ chatReq' = NoReq
    /\ chatResp' = NoReq
    /\ UNCHANGED notChat
    /\ UNCHANGED <<version, bookId, book, inputMessage, conversationHistory,
                   currentConversationId, bookFetch, histFetch, turns, saved,
                   transcript>>

\* newChat
EarlierNewChat ==
    /\ version = "earlier"
    /\ ChatShown
    /\ messages' = <<>>
    /\ chatReq' = MarkBeforeNewChat(chatReq)
    /\ UNCHANGED notChat
    /\ UNCHANGED <<version, bookId, book, inputMessage, isLoading,
                   conversationHistory, currentConversationId, bookFetch,
                   histFetch, chatResp, turns, saved, transcript,
                   lastSettled>>

\* the chat view before it is mounted
InitChatVars ==
    /\ version = "current"
    /\ bookId = 1
    /\ book = NullBook
    /\ messages = <<>>
    /\ inputMessage = EmptyText
    /\ isLoading = FALSE
    /\ conversationHistory = <<>>
    /\ currentConversationId = NullConvId
    /\ bookFetch = NoReq
    /\ histFetch = NoReq
    /\ chatReq = NoReq
    /\ chatResp = NoReq
    /\ turns = 0
    /\ saved = 0
    /\ transcript = <<>>
    /\ lastSettled = "none"


(***************************************************************************)
(* The dashboard (Dashboard.jsx) with its WebScraper form.  The search     *)
(* box, the drag highlight and the list of supported formats shown are     *)
(* presentation state and are left out.                                    *)
(***************************************************************************)
\* 50 * 1024 * 1024
MaxFileSize == 50 * 1024 * 1024

\* a file name: its text and length, the index of its last '.', and the
\* text before and after that '.'
FileName(text, len, lastDot, stem, ext) ==
    [text |-> text, len |-> len, lastDot |-> lastDot, stem |-> stem, ext |-> ext]

File(name, size) == [name |-> name, size |-> size]

\* no file: null
NoFile == File(FileName("", 0, -1, "", ""), -1)

\* the accept attribute of the file input
SupportedExts ==
    {"pdf", "docx", "doc", "xlsx", "xls", "csv", "pptx", "ppt", "txt", "md",
     "json", "png", "jpg", "jpeg", "html", "htm"}

\* the files a user may pick or drop
Files ==
    { File(FileName("edge.pdf", 8, 4, "edge", "pdf"), MaxFileSize),
      File(FileName("big.pdf", 7, 3, "big", "pdf"), MaxFileSize + 1),
      File(FileName("setup.exe", 9, 5, "setup", "exe"), 2048) }

\* fileName.substring(0, fileName.lastIndexOf('.')) || fileName
NameWithoutExt(name) ==
    LET cut == IF name.lastDot < 0 THEN 0 ELSE name.lastDot
    IN IF cut = 0 THEN Text(0, name.text, name.len, 0)
       ELSE Text(0, name.stem, cut, 0)

\* what the user may type as the content name and as the page title
BookNames == { Text(1, "", 0, 0), Text(0, "My book", 7, 1) }
Titles == { EmptyText, Text(1, "My page", 7, 0) }
NullTitle == Text(0, "null", 0, 0)

\* a string typed into the URL field: the whitespace around it, its scheme
\* ("" when it has none) and its host ("" when it has none)
Url(lead, scheme, host, n, trail) ==
    [lead |-> lead, scheme |-> scheme, host |-> host, n |-> n, trail |-> trail]

EmptyUrl == Url(0, "", "", 0, 0)

Urls ==
    { Url(2, "", "", 0, 0),                        \* blanks only
      Url(0, "", "example.com", 19, 0),            \* example.com/article
      Url(0, "https", "", 8, 0),                   \* https://
      Url(1, "https", "example.com", 21, 1) }      \* https://example.com/a

\* the schemes whose URLs need a host
SpecialSchemes == {"http", "https", "ftp", "ws", "wss"}

\* url.trim()
UrlTrim(u) == [u EXCEPT !.lead = 0, !.trail = 0]
UrlIsBlank(u) == UrlTrim(u) = EmptyUrl

\* new URL(url) does not throw: the parser strips the blanks around the
\* string, needs a scheme, and needs a host after a special scheme
ParsesAsUrl(u) ==
    /\ u.scheme # ""
    /\ u.scheme \in SpecialSchemes => u.host # ""

\* the alert texts; alert() blocks the page until it is dismissed
NoAlert == "none"
AlertTooLarge == "File size too large. Maximum 50MB allowed."
AlertNoName == "Please provide a book name"
AlertBadUrl == "Please enter a valid URL"
AlertUploadError == "Error uploading book"
AlertUploaded == "Book uploaded successfully"
AlertScrapeError == "Error scraping web content"
AlertScraped == "Web content scraped successfully"

\* handleFileSelect: file.size > 50 * 1024 * 1024
FileTooLarge_DoubleLimit(file) == file.size > 2 * MaxFileSize

FileTooLarge(file) == file.size > MaxFileSize

\* handleFileSelect(file)
HandleFileSelect(file) ==
    IF file = NoFile
    THEN UNCHANGED <<selectedFile, bookName, uploadType, showUploadModal, alertShown>>
    ELSE IF FileTooLarge(file)
    THEN /\ alertShown' = AlertTooLarge
         /\ UNCHANGED <<selectedFile, bookName, uploadType, showUploadModal>>
    ELSE /\ selectedFile' = file
         /\ bookName' = NameWithoutExt(file.name)
         /\ uploadType' = "file"
         /\ showUploadModal' = TRUE
         /\ UNCHANGED alertShown

\* handleDrop: a file dropped onto the upload area (inert while isUploading)
HandleDrop(file) ==
    /\ alertShown = NoAlert
    /\ ~showUploadModal
    /\ ~isUploading
    /\ HandleFileSelect(file)
    /\ UNCHANGED notDash
    /\ UNCHANGED <<deleteReq, lastIssued,
                   isUploading, uploadProgress, progressTimer, timers, uploadReq,
                   uploadResp, dashBooks, isLoadingBooks, booksFetches, wsUrl,
                   wsTitle, wsIsLoading>>

\* handleFileInputChange, onFileSelect: a file chosen through the picker
HandleFileInputChange(file) ==
    /\ alertShown = NoAlert
    /\ ~showUploadModal
    /\ ~isUploading
    /\ uploadType = "file"
    /\ HandleFileSelect(file)
    /\ UNCHANGED notDash
    /\ UNCHANGED <<deleteReq, lastIssued,
                   isUploading, uploadProgress, progressTimer, timers, uploadReq,
                   uploadResp, dashBooks, isLoadingBooks, booksFetches, wsUrl,
                   wsTitle, wsIsLoading>>

\* the Files / Web buttons
SetUploadType(t) ==
    /\ alertShown = NoAlert
    /\ ~showUploadModal
    /\ uploadType' = t
    /\ UNCHANGED notDash
    /\ UNCHANGED <<deleteReq, lastIssued,
                   selectedFile, bookName, showUploadModal, isUploading,
                   uploadProgress, progressTimer, timers, uploadReq, uploadResp,
                   dashBooks, isLoadingBooks, booksFetches, wsUrl, wsTitle,
                   wsIsLoading, alertShown>>

\* the content-name field of the upload dialog
SetBookName(txt) ==
    /\ alertShown = NoAlert
    /\ showUploadModal
    /\ bookName' = txt
    /\ UNCHANGED notDash
    /\ UNCHANGED <<deleteReq, lastIssued,
                   uploadType, selectedFile, showUploadModal, isUploading,
                   uploadProgress, progressTimer, timers, uploadReq, uploadResp,
                   dashBooks, isLoadingBooks, booksFetches, wsUrl, wsTitle,
                   wsIsLoading, alertShown>>

\* the Cancel button of the upload dialog
CancelUpload ==
    /\ alertShown = NoAlert
    /\ showUploadModal
    /\ showUploadModal' = FALSE
    /\ selectedFile' = NoFile
    /\ bookName' = EmptyText
    /\ UNCHANGED notDash
    /\ UNCHANGED <<deleteReq, lastIssued,
                   uploadType, isUploading, uploadProgress, progressTimer, timers,
                   uploadReq, uploadResp, dashBooks, isLoadingBooks, booksFetches,
                   wsUrl, wsTitle, wsIsLoading, alertShown>>

\* handleFileUpload, up to the fetch (Upload Content, disabled while the
\* name is blank)
HandleFileUpload ==
    /\ alertShown = NoAlert
    /\ showUploadModal
    /\ ~IsBlank(bookName)
    /\ IF selectedFile = NoFile \/ IsBlank(bookName)
       THEN /\ alertShown' = AlertNoName
            /\ UNCHANGED <<isUploading, uploadProgress, showUploadModal,
                           progressTimer, uploadReq>>
       ELSE /\ isUploading' = TRUE
            /\ uploadProgress' = 0
            /\ showUploadModal' = FALSE
            /\ progressTimer' = TRUE
            /\ uploadReq' = [kind |-> "upload", file |-> selectedFile,
                             user_id |-> RequestUserId(user),
                             book_name |-> Trim(bookName)]
            /\ UNCHANGED alertShown
    /\ UNCHANGED notDash
    /\ UNCHANGED <<deleteReq, lastIssued,
                   uploadType, selectedFile, bookName, timers, uploadResp,
                   dashBooks, isLoadingBooks, booksFetches, wsUrl, wsTitle,
                   wsIsLoading>>

\* the progress interval: setUploadProgress(prev => Math.min(prev + 10, 90))
ProgressTick ==
    /\ alertShown = NoAlert
    /\ progressTimer
    /\ uploadProgress' = Min(uploadProgress + 10, 90)
    /\ UNCHANGED notDash
    /\ UNCHANGED <<deleteReq, lastIssued,
                   uploadType, selectedFile, bookName, showUploadModal,
                   isUploading, progressTimer, timers, uploadReq, uploadResp,
                   dashBooks, isLoadingBooks, booksFetches, wsUrl, wsTitle,
                   wsIsLoading, alertShown>>

\* the URL and title fields of the WebScraper form
SetUrl(u) ==
    /\ alertShown = NoAlert
    /\ ~showUploadModal
    /\ uploadType = "web"
    /\ ~(isUploading \/ wsIsLoading)
    /\ wsUrl' = u
    /\ UNCHANGED notDash
    /\ UNCHANGED <<deleteReq, lastIssued,
                   uploadType, selectedFile, bookName, showUploadModal,
                   isUploading, uploadProgress, progressTimer, timers, uploadReq,
                   uploadResp, dashBooks, isLoadingBooks, booksFetches, wsTitle,
                   wsIsLoading, alertShown>>

SetTitle(t) ==
    /\ alertShown = NoAlert
    /\ ~showUploadModal
    /\ uploadType = "web"
    /\ ~(isUploading \/ wsIsLoading)
    /\ wsTitle' = t
    /\ UNCHANGED notDash
    /\ UNCHANGED <<deleteReq, lastIssued,
                   uploadType, selectedFile, bookName, showUploadModal,
                   isUploading, uploadProgress, progressTimer, timers, uploadReq,
                   uploadResp, dashBooks, isLoadingBooks, booksFetches, wsUrl,
                   wsIsLoading, alertShown>>

\* WebScraper.handleSubmit: try { new URL(url) } catch { alert; return }
UrlRejected(u) == ~ParsesAsUrl(u)

\* WebScraper.handleSubmit with handleWebScrape, up to the fetch (the
\* submit button is disabled while disabled || isLoading || !url.trim())
HandleSubmit ==
    /\ alertShown = NoAlert
    /\ ~showUploadModal
    /\ uploadType = "web"
    /\ ~(isUploading \/ wsIsLoading \/ UrlIsBlank(wsUrl))
    /\ IF UrlIsBlank(wsUrl)
       THEN UNCHANGED <<wsIsLoading, isUploading, uploadProgress, progressTimer,
                        uploadReq, alertShown>>
       ELSE IF UrlRejected(wsUrl)
       THEN /\ alertShown' = AlertBadUrl
            /\ UNCHANGED <<wsIsLoading, isUploading, uploadProgress,
                           progressTimer, uploadReq>>
       ELSE /\ wsIsLoading' = TRUE
            /\ isUploading' = TRUE
            /\ uploadProgress' = 0
            /\ progressTimer' = TRUE
            /\ uploadReq' = [kind |-> "scrape", url |-> UrlTrim(wsUrl),
                             title |-> IF IsBlank(wsTitle) THEN NullTitle
                                       ELSE Trim(wsTitle),
                             user_id |-> RequestUserId(user)]
            /\ UNCHANGED alertShown
    /\ UNCHANGED notDash
    /\ UNCHANGED <<deleteReq, lastIssued,
                   uploadType, selectedFile, bookName, showUploadModal, timers,
                   uploadResp, dashBooks, isLoadingBooks, booksFetches, wsUrl,
                   wsTitle>>

\* a GET /books request in flight: what issued it, whether a later call
\* was issued since, and the lists the backend may answer it with (the
\* user's books at any moment since the request was issued)
BooksFetch(who, seen) == [who |-> who, old |-> FALSE, seen |-> seen]

\* the requests in flight after the user's books became the list given
SeeBooks(fetches, list) ==
    [k \in DOMAIN fetches |->
        [fetches[k] EXCEPT !.seen = fetches[k].seen \cup {list}]]

\* the list GET /books answers with when the books table holds the rows
BooksResultOf(rows, uid) ==
    {[id |-> b.id, status |-> b.status] : b \in {r \in rows : r.user_id = uid}}

\* no GET /books outcome handled since the last call was issued
NotHandled == [known |-> FALSE, ok |-> FALSE, books |-> {}]

\* the backend answers POST /upload-book or POST /scrape-url, or the fetch
\* rejects; an accepted upload adds a row to books
UploadServerRespond ==
    /\ uploadReq # NoReq
    /\ uploadResp = NoReq
    /\ \/ /\ nextBookId <= MaxBooks
          /\ uploadResp' = [kind |-> "http", status |-> 200]
          /\ books' = books \cup {[id |-> nextBookId, user_id |-> uploadReq.user_id,
                                   status |-> DefaultStatus,
                                   pinecone_namespace |-> NullNs]}
          /\ nextBookId' = nextBookId + 1
          /\ booksFetches' =
                SeeBooks(booksFetches, BooksResultOf(books', RequestUserId(user)))
       \/ /\ uploadResp' = [kind |-> "http", status |-> 400]
          /\ UNCHANGED <<books, nextBookId, booksFetches>>
       \/ /\ uploadResp' = NetworkError
          /\ UNCHANGED <<books, nextBookId, booksFetches>>
    /\ UNCHANGED <<varsApp, user, varsMCQ, varsChat, varsIngest>>
    /\ UNCHANGED <<authUid, conversations, chat_histories, mcq_rows, nsUsed,
                   lastCascade>>
    /\ UNCHANGED <<deleteReq, lastIssued,
                   uploadType, selectedFile, bookName, showUploadModal,
                   isUploading, uploadProgress, progressTimer, timers, uploadReq,
                   dashBooks, isLoadingBooks, wsUrl, wsTitle,
                   wsIsLoading, alertShown>>

\* the timeouts set by the upload handlers
RefreshUpload == "refresh after upload"     \* setTimeout(..., 500)
ResetUpload == "reset after upload"         \* setTimeout(..., 1000)
RefreshScrape == "refresh after scrape"
ResetScrape == "reset after scrape"

\* the response of the upload succeeded
UploadOk(resp) == resp.kind = "http" /\ ResponseOk(resp)

\* the timeouts an attempt sets once its request has settled: the refresh
\* at the end of try, the reset in finally
SettleTimers_ResetInTry(ok, refresh, reset) ==
    IF ok THEN {refresh, reset} ELSE {}

SettleTimers(ok, refresh, reset) ==
    IF ok THEN {refresh, reset} ELSE {reset}

\* handleFileUpload, from the outcome of the fetch on
HandleFileUploadSettle ==
    /\ alertShown = NoAlert
    /\ uploadReq # NoReq
    /\ uploadReq.kind = "upload"
    /\ uploadResp # NoReq
    /\ progressTimer' = FALSE
    /\ IF UploadOk(uploadResp)
       THEN /\ uploadProgress' = 100
            /\ timers' = timers \cup SettleTimers(TRUE, RefreshUpload, ResetUpload)
            /\ UNCHANGED alertShown
       ELSE /\ alertShown' = AlertUploadError
            /\ timers' = timers \cup SettleTimers(FALSE, RefreshUpload, ResetUpload)
            /\ UNCHANGED uploadProgress
    /\ uploadReq' = NoReq
    /\ uploadResp' = NoReq
    /\ UNCHANGED notDash
    /\ UNCHANGED <<deleteReq, lastIssued,
                   uploadType, selectedFile, bookName, showUploadModal,
                   isUploading, dashBooks, isLoadingBooks, booksFetches, wsUrl,
                   wsTitle, wsIsLoading>>

\* handleWebScrape, from the outcome of the fetch on, and the rest of
\* WebScraper.handleSubmit: the form is cleared when onWebScrape returned
HandleWebScrapeSettle ==
    /\ alertShown = NoAlert
    /\ uploadReq # NoReq
    /\ uploadReq.kind = "scrape"
    /\ uploadResp # NoReq
    /\ progressTimer' = FALSE
    /\ IF UploadOk(uploadResp)
       THEN /\ uploadProgress' = 100
            /\ timers' = timers \cup SettleTimers(TRUE, RefreshScrape, ResetScrape)
            /\ UNCHANGED alertShown
       ELSE /\ alertShown' = AlertScrapeError
            /\ timers' = timers \cup SettleTimers(FALSE, RefreshScrape, ResetScrape)
            /\ UNCHANGED uploadProgress
    /\ wsUrl' = EmptyUrl
    /\ wsTitle' = EmptyText
    /\ wsIsLoading' = FALSE
    /\ uploadReq' = NoReq
    /\ uploadResp' = NoReq
    /\ UNCHANGED notDash
    /\ UNCHANGED <<deleteReq, lastIssued,
                   uploadType, selectedFile, bookName, showUploadModal,
                   isUploading, dashBooks, isLoadingBooks, booksFetches>>

\* fetchBooks, up to the fetch; who tells which caller awaits it
FetchBooksStart(who) ==
    /\ isLoadingBooks' = TRUE
    /\ booksFetches' =
          Append([k \in DOMAIN booksFetches |-> [booksFetches[k] EXCEPT !.old = TRUE]],
                 BooksFetch(who, {BooksResult(RequestUserId(user))}))
    /\ lastIssued' = NotHandled

\* the 500 ms timeout of a successful upload or scrape: await fetchBooks()
RefreshTimer(t) ==
    /\ alertShown = NoAlert
    /\ t \in timers \cap {RefreshUpload, RefreshScrape}
    /\ Len(booksFetches) < MaxFetches
    /\ timers' = timers \ {t}
    /\ FetchBooksStart(t)
    /\ UNCHANGED notDash
    /\ UNCHANGED <<deleteReq, uploadType, selectedFile, bookName, showUploadModal,
                   isUploading, uploadProgress, progressTimer, uploadReq,
                   uploadResp, dashBooks, wsUrl, wsTitle, wsIsLoading, alertShown>>

\* the 1000 ms timeout of the finally block; it was set together with the
\* 500 ms one and fires after it
ResetTimer(t) ==
    /\ alertShown = NoAlert
    /\ t \in timers \cap {ResetUpload, ResetScrape}
    /\ timers \cap {RefreshUpload, RefreshScrape} = {}
    /\ timers' = timers \ {t}
    /\ isUploading' = FALSE
    /\ uploadProgress' = 0
    /\ IF t = ResetUpload
       THEN selectedFile' = NoFile /\ bookName' = EmptyText
       ELSE UNCHANGED <<selectedFile, bookName>>
    /\ UNCHANGED notDash
    /\ UNCHANGED <<deleteReq, lastIssued,
                   uploadType, showUploadModal, progressTimer, uploadReq,
                   uploadResp, dashBooks, isLoadingBooks, booksFetches, wsUrl,
                   wsTitle, wsIsLoading, alertShown>>

\* the refresh of deleteBook
RefreshDelete == "refresh after delete"

AlertDeleted == "Book deleted successfully!"
AlertDeleteError == "Error deleting book. Please try again."

\* fetchBooks: finally { setIsLoadingBooks(false) }
LoadingAfterFetch(fetches) == FALSE

\* fetchBooks, from the outcome of the i-th fetch in flight on; the caller
\* that awaited it then reports success
FetchBooksSettle(i, ok) ==
    /\ alertShown = NoAlert
    /\ i \in DOMAIN booksFetches
    /\ booksFetches' = [k \in 1..(Len(booksFetches) - 1) |->
                           IF k < i THEN booksFetches[k] ELSE booksFetches[k + 1]]
    /\ \E list \in booksFetches[i].seen :
          /\ dashBooks' = IF ok THEN list ELSE dashBooks
          /\ lastIssued' = IF booksFetches[i].old THEN lastIssued
                           ELSE [known |-> TRUE, ok |-> ok,
                                 books |-> IF ok THEN list ELSE {}]
    /\ isLoadingBooks' = LoadingAfterFetch(booksFetches')
    /\ alertShown' = IF booksFetches[i].who = RefreshUpload THEN AlertUploaded
                    ELSE IF booksFetches[i].who = RefreshScrape THEN AlertScraped
                    ELSE IF booksFetches[i].who = RefreshDelete THEN AlertDeleted
                    ELSE alertShown
    /\ UNCHANGED notDash
    /\ UNCHANGED <<deleteReq, uploadType, selectedFile, bookName, showUploadModal,
                   isUploading, uploadProgress, progressTimer, timers, uploadReq,
                   uploadResp, wsUrl, wsTitle, wsIsLoading>>

\* deleteBook, up to the fetch; the delete buttons are part of the list,
\* which the loader replaces while isLoadingBooks.  (A declined confirm()
\* changes nothing.)
DeleteBookClick(id) ==
    /\ alertShown = NoAlert
    /\ ~showUploadModal
    /\ ~isLoadingBooks
    /\ id \in {b.id : b \in dashBooks}
    /\ deleteReq = NoReq
    /\ deleteReq' = [kind |-> "sent", id |-> id, user_id |-> RequestUserId(user)]
    /\ UNCHANGED notDash
    /\ UNCHANGED <<lastIssued, uploadType, selectedFile, bookName, showUploadModal,
                   isUploading, uploadProgress, progressTimer, timers, uploadReq,
                   uploadResp, dashBooks, isLoadingBooks, booksFetches, wsUrl,
                   wsTitle, wsIsLoading, alertShown>>

\* the backend answers DELETE /book/:id, or the fetch rejects; an accepted
\* delete removes the row from books
DeleteServerRespond ==
    /\ deleteReq # NoReq
    /\ deleteReq.kind = "sent"
    /\ \/ /\ \E b \in books : b.id = deleteReq.id /\ b.user_id = deleteReq.user_id
          /\ deleteReq' = [kind |-> "http", status |-> 200]
          /\ books' = {b \in books : b.id # deleteReq.id}
          /\ booksFetches' =
                SeeBooks(booksFetches, BooksResultOf(books', RequestUserId(user)))
       \/ /\ deleteReq' = [kind |-> "http", status |-> 500]
          /\ UNCHANGED <<books, booksFetches>>
       \/ /\ deleteReq' = NetworkError
          /\ UNCHANGED <<books, booksFetches>>
    /\ UNCHANGED <<varsApp, user, varsMCQ, varsChat, varsIngest>>
    /\ UNCHANGED <<authUid, conversations, chat_histories, mcq_rows, nextBookId,
                   nsUsed, lastCascade>>
    /\ UNCHANGED <<lastIssued, uploadType, selectedFile, bookName, showUploadModal,
                   isUploading, uploadProgress, progressTimer, timers, uploadReq,
                   uploadResp, dashBooks, isLoadingBooks, wsUrl, wsTitle,
                   wsIsLoading, alertShown>>

\* deleteBook, from the outcome of the fetch on: await fetchBooks() when the
\* response is OK, the error alert otherwise
DeleteBookSettle ==
    /\ alertShown = NoAlert
    /\ deleteReq # NoReq
    /\ deleteReq.kind # "sent"
    /\ deleteReq' = NoReq
    /\ IF UploadOk(deleteReq)
       THEN /\ Len(booksFetches) < MaxFetches
            /\ FetchBooksStart(RefreshDelete)
            /\ UNCHANGED alertShown
       ELSE /\ alertShown' = AlertDeleteError
            /\ UNCHANGED <<isLoadingBooks, booksFetches, lastIssued>>
    /\ UNCHANGED notDash
    /\ UNCHANGED <<uploadType, selectedFile, bookName, showUploadModal,
                   isUploading, uploadProgress, progressTimer, timers, uploadReq,
                   uploadResp, dashBooks, wsUrl, wsTitle, wsIsLoading>>

\* the user dismisses the alert
DismissAlert ==
    /\ alertShown # NoAlert
    /\ alertShown' = NoAlert
    /\ UNCHANGED notDash
    /\ UNCHANGED <<deleteReq, lastIssued,
                   uploadType, selectedFile, bookName, showUploadModal,
                   isUploading, uploadProgress, progressTimer, timers, uploadReq,
                   uploadResp, dashBooks, isLoadingBooks, booksFetches, wsUrl,
                   wsTitle, wsIsLoading>>

\* the dashboard before it is mounted
InitDashVars ==
    /\ uploadType = "file"
    /\ selectedFile = NoFile
    /\ bookName = EmptyText
    /\ showUploadModal = FALSE
    /\ isUploading = FALSE
    /\ uploadProgress = 0
    /\ progressTimer = FALSE
    /\ timers = {}
    /\ uploadReq = NoReq
    /\ uploadResp = NoReq
    /\ dashBooks = {}
    /\ isLoadingBooks = TRUE
    /\ booksFetches = <<>>
    /\ wsUrl = EmptyUrl
    /\ wsTitle = EmptyText
    /\ wsIsLoading = FALSE
    /\ alertShown = NoAlert
    /\ deleteReq = NoReq
    /\ lastIssued = NotHandled

(***************************************************************************)
(* The ingestion pipeline of the backend: chunker and index writer.  The   *)
(* backend is not among the sources; the two follow the specification      *)
(* (sections 4.2 and 4.3).  A text is a sequence of characters.  The       *)
(* embedding of a chunk is a function of its text and is left out of the   *)
(* index entries.                                                          *)
(***************************************************************************)
Chars == {"a", "b"}
Texts == UNION { [1..n -> Chars] : n \in 0..MaxTextLen }

\* the chunker: chunks of size characters, each starting overlap characters
\* before the end of the one before; a text no longer than size is one chunk
RECURSIVE Chunker_StepBySize(_, _, _)
Chunker_StepBySize(text, size, overlap) ==
    IF Len(text) <= size
    THEN <<text>>
    ELSE <<SubSeq(text, 1, size)>>
         \o Chunker_StepBySize(SubSeq(text, size + 1, Len(text)), size, overlap)

RECURSIVE Chunker(_, _, _)
Chunker(text, size, overlap) ==
    IF Len(text) <= size
    THEN <<text>>
    ELSE <<SubSeq(text, 1, size)>>
         \o Chunker(SubSeq(text, size - overlap + 1, Len(text)), size, overlap)

\* the part of the k-th chunk that the chunk before it does not hold
NonOverlapSpan(list, k, overlap) ==
    IF k = 1 THEN list[1] ELSE SubSeq(list[k], overlap + 1, Len(list[k]))

\* the non-overlapping spans of the first k chunks, concatenated in order
RECURSIVE Reassemble(_, _, _)
Reassemble(list, k, overlap) ==
    IF k = 0 THEN <<>>
    ELSE Reassemble(list, k - 1, overlap) \o NonOverlapSpan(list, k, overlap)

\* the namespace token of the content item, and that of another item
Namespace == "ns-item"
OtherNamespace == "ns-other"

\* the key of a chunk's vector: the content item and the chunk's position
VectorId(ns, position) == <<ns, position>>

\* the index entry of the k-th chunk
Entry(ns, list, k) ==
    [ns |-> ns, id |-> VectorId(ns, k), text |-> list[k], position |-> k]

\* upsert: the entry replaces the one stored under its key, if any
Upsert_FreshId(index, e) ==
    index \cup {[e EXCEPT !.id = <<"generated", Cardinality(index)>>]}

Upsert(index, e) ==
    {x \in index : ~(x.ns = e.ns /\ x.id = e.id)} \cup {e}

\* the entries of one namespace
NsEntries(index, ns) == {x \in index : x.ns = ns}

\* the chunker runs on the extracted text
ChunkText ==
    /\ chunks = <<>>
    /\ chunks' = Chunker(docText, chunkSize, chunkOverlap)
    /\ UNCHANGED notIngest
    /\ UNCHANGED <<docText, chunkSize, chunkOverlap, vectorIndex, upserted, ingests>>

\* the index writer embeds and upserts the next chunk
UpsertNext ==
    /\ chunks # <<>>
    /\ ingests < MaxIngests
    /\ upserted < Len(chunks)
    /\ vectorIndex' = Upsert(vectorIndex, Entry(Namespace, chunks, upserted + 1))
    /\ upserted' = upserted + 1
    /\ UNCHANGED notIngest
    /\ UNCHANGED <<docText, chunkSize, chunkOverlap, chunks, ingests>>

\* all chunks are written: the ingestion is complete
IngestDone ==
    /\ chunks # <<>>
    /\ ingests < MaxIngests
    /\ upserted = Len(chunks)
    /\ ingests' = ingests + 1
    /\ upserted' = 0
    /\ UNCHANGED notIngest
    /\ UNCHANGED <<docText, chunkSize, chunkOverlap, chunks, vectorIndex>>

\* EmbeddingServiceError or IndexWriteError: the ingestion stops where it
\* is; the caller may retry from the first chunk
IngestFails ==
    /\ chunks # <<>>
    /\ ingests < MaxIngests
    /\ upserted > 0
    /\ upserted < Len(chunks)
    /\ upserted' = 0
    /\ UNCHANGED notIngest
    /\ UNCHANGED <<docText, chunkSize, chunkOverlap, chunks, vectorIndex, ingests>>

\* no ingestion has been asked for
InitIngestVars ==
    /\ docText = <<>>
    /\ chunkSize = 1
    /\ chunkOverlap = 0
    /\ chunks = <<>>
    /\ vectorIndex = {}
    /\ upserted = 0
    /\ ingests = 0

(***************************************************************************)
(* The App component: the routes and what they render.  The repository     *)
(* holds two versions of App; the earlier one has no mobile menu.  A path  *)
(* is the list of its segments.  useAuth() is not among the sources: user  *)
(* is null while nobody is signed in and changes on sign-in and sign-out.  *)
(***************************************************************************)
Paths ==
    { <<>>, <<"login">>, <<"signup">>, <<"dashboard">>, <<"profile">>,
      <<"chat">>, <<"chat", "1">>, <<"chat", "2">>, <<"nowhere">> }

\* the element of the Route matching the path: user ? <Screen /> : <Login />
RouteElement_ProfileOpen(path, u) ==
    IF path = <<>> THEN "Home"
    ELSE IF path = <<"login">> THEN (IF u # NullUser THEN "Dashboard" ELSE "Login")
    ELSE IF path = <<"signup">> THEN (IF u # NullUser THEN "Dashboard" ELSE "SignUp")
    ELSE IF path = <<"dashboard">> THEN (IF u # NullUser THEN "Dashboard" ELSE "Login")
    ELSE IF path = <<"profile">> THEN "Profile"
    ELSE IF Len(path) = 2 /\ path[1] = "chat"
    THEN (IF u # NullUser THEN "ChatInterface" ELSE "Login")
    ELSE "nothing"

RouteElement(path, u) ==
    IF path = <<>> THEN "Home"
    ELSE IF path = <<"login">> THEN (IF u # NullUser THEN "Dashboard" ELSE "Login")
    ELSE IF path = <<"signup">> THEN (IF u # NullUser THEN "Dashboard" ELSE "SignUp")
    ELSE IF path = <<"dashboard">> THEN (IF u # NullUser THEN "Dashboard" ELSE "Login")
    ELSE IF path = <<"profile">> THEN (IF u # NullUser THEN "Profile" ELSE "Login")
    ELSE IF Len(path) = 2 /\ path[1] = "chat"
    THEN (IF u # NullUser THEN "ChatInterface" ELSE "Login")
    ELSE "nothing"

\* isAuthPage, isChatPage
IsAuthPage(path) == path = <<"login">> \/ path = <<"signup">>
IsChatPage(path) == Len(path) >= 2 /\ path[1] = "chat"

\* a Link, navigate() or the address bar changes the location
Navigate(path) ==
    /\ path # pathname
    /\ pathname' = path
    /\ screen' = RouteElement(path, user)
    /\ UNCHANGED notApp
    /\ UNCHANGED <<user, appVersion, isDarkTheme, isMobileMenuOpen>>

\* sign-in, sign-out or the end of the session: useAuth().user changes and
\* App renders again
AuthChange(u) ==
    /\ u # user
    /\ user' = u
    /\ screen' = RouteElement(pathname, u)
    /\ UNCHANGED notApp
    /\ UNCHANGED <<appVersion, pathname, isDarkTheme, isMobileMenuOpen>>

\* handleThemeToggle
HandleThemeToggle ==
    /\ isDarkTheme' = ~isDarkTheme
    /\ screen' = RouteElement(pathname, user)
    /\ UNCHANGED notApp
    /\ UNCHANGED <<user, appVersion, pathname, isMobileMenuOpen>>

\* the menu button of the mobile header (current App; the header is hidden
\* on the auth pages and the chat page)
ToggleMobileMenu ==
    /\ appVersion = "current"
    /\ ~IsAuthPage(pathname) /\ ~IsChatPage(pathname)
    /\ isMobileMenuOpen' = ~isMobileMenuOpen
    /\ screen' = RouteElement(pathname, user)
    /\ UNCHANGED notApp
    /\ UNCHANGED <<user, appVersion, pathname, isDarkTheme>>

\* App before anything is shown
InitAppVars ==
    /\ appVersion = "current"
    /\ pathname = <<>>
    /\ isDarkTheme = FALSE
    /\ isMobileMenuOpen = FALSE
    /\ screen = "Home"

(***************************************************************************)
(* Specifications                                                          *)
(***************************************************************************)
\* the quiz generator, opened from the chat view of a signed-in user
InitMCQ ==
    /\ user \in Users
    /\ quizBook \in Books
    /\ InitMCQVars
    /\ InitStoreVars
    /\ InitChatVars
    /\ InitDashVars
    /\ InitIngestVars
    /\ InitAppVars

NextMCQ ==
    \/ GenerateMCQs
    \/ McqServerRespond
    \/ GenerateMCQsSettle
    \/ DismissError
    \/ \E num \in NumQuestionsChoices : SetNumQuestions(num)
    \/ \E d \in Difficulties : SetDifficulty(d)
    \/ \E a \in 0..(NumOptions - 1) : HandleAnswerSelect(a)
    \/ PreviousQuestion
    \/ NextQuestion
    \/ SubmitQuiz
    \/ ResetQuiz

SpecMCQ == InitMCQ /\ [][NextMCQ]_vars



InitStore ==
    /\ user = "u1"
    /\ quizBook = "b1"
    /\ InitMCQVars
    /\ InitStoreVars
    /\ InitChatVars
    /\ InitDashVars
    /\ InitIngestVars
    /\ InitAppVars

\* the books table alone, with every value of its columns
NextBooks ==
    \/ \E u \in Users : SwitchSession(u)
    \/ \E o \in Users, st \in StatusValues, ns \in Namespaces \cup {NullNs} :
          InsertBook(o, st, ns)
    \/ \E id \in BookIds, o \in Users, st \in StatusValues,
          ns \in Namespaces \cup {NullNs} : UpdateBook(id, o, st, ns)
    \/ \E id \in BookIds : DeleteBook(id)

SpecBooks == InitStore /\ [][NextBooks]_vars

\* all the tables; the books carry no namespace
NextStore ==
    \/ \E u \in Users : SwitchSession(u)
    \/ \E o \in Users, st \in StatusValues : InsertBook(o, st, NullNs)
    \/ \E id \in BookIds, o \in Users, st \in StatusValues :
          UpdateBook(id, o, st, NullNs)
    \/ \E id \in BookIds : DeleteBook(id)
    \/ \E b \in BookIds, o \in Users : InsertConversation(b, o)
    \/ \E c \in conversations, b \in BookIds : UpdateConversation(c, b)
    \/ \E c \in conversations : DeleteConversation(c)
    \/ \E cv \in ChildIds \cup {NullId}, b \in BookIds, o \in Users, ct \in Contents :
          InsertChat(cv, b, o, ct)
    \/ \E h \in chat_histories, ct \in Contents : UpdateChat(h, ct)
    \/ \E h \in chat_histories : DeleteChat(h)
    \/ \E b \in BookIds, o \in Users : InsertMcq(b, o)
    \/ \E m \in mcq_rows, b \in BookIds : UpdateMcq(m, b)
    \/ \E m \in mcq_rows : DeleteMcq(m)

SpecStore == InitStore /\ [][NextStore]_vars

\* a chat view opened from the dashboard on a book of the signed-in user,
\* right after its mount effect has sent the two GET requests; the backend
\* holds an exchange of an earlier visit when the book is processed.  The
\* book keeps the status it has when the view is opened; it may be deleted
\* (from the dashboard, in another tab) while the view is open.
StoredExchange ==
    << Message("user", Text(0, "q", 1, 0), 0, FALSE),
       Message("assistant", AnswerText, 0, TRUE) >>

InitChat ==
    /\ user = "u1"
    /\ quizBook = "b1"
    /\ InitMCQVars
    /\ authUid = user
    /\ \E st \in StatusValues :
          books = {[id |-> 1, user_id |-> user, status |-> st,
                    pinecone_namespace |-> NullNs]}
    /\ conversations = {}
    /\ chat_histories = {}
    /\ mcq_rows = {}
    /\ nextBookId = 2
    /\ nsUsed = {}
    /\ lastCascade = 0
    /\ version \in {"current", "earlier"}
    /\ bookId = 1
    /\ book = NullBook
    /\ messages = <<>>
    /\ inputMessage = EmptyText
    /\ isLoading = FALSE
    /\ conversationHistory = <<>>
    /\ currentConversationId = NullConvId
    /\ bookFetch = [kind |-> "sent"]
    /\ histFetch = [kind |-> "sent"]
    /\ chatReq = NoReq
    /\ chatResp = NoReq
    /\ turns = 0
    /\ saved = 0
    /\ transcript = IF \E b \in books : b.status = "processed"
                    THEN [i \in DOMAIN StoredExchange |-> StoredRow(1, StoredExchange[i])]
                    ELSE <<>>
    /\ lastSettled = "none"
    /\ InitDashVars
    /\ InitIngestVars
    /\ InitAppVars

NextChat ==
    \/ BooksServerRespond
    \/ HistoryServerRespond
    \/ ChatServerRespond
    \/ ChatNetworkError
    \/ FetchBookInfoFails
    \/ FetchBookInfo
    \/ ChatHistoryFetchFails
    \/ \E txt \in Inputs : SetInputMessage(txt)
    \/ SuggestQuestion
    \/ LoadAllConversations
    \/ SendMessage
    \/ SendMessageSettle
    \/ NewChat
    \/ \E i \in 1..(MaxSaved + 1) : LoadConversation(i)
    \/ FetchChatHistory
    \/ EarlierSendMessage
    \/ EarlierSendMessageSettle
    \/ EarlierNewChat
    \/ DeleteBook(bookId)

SpecChat == InitChat /\ [][NextChat]_vars

\* the chat view when the HTTP request of every send settles (the backend
\* answers or the fetch rejects) and the awaiting sendMessage then resumes
SpecChatLive ==
    /\ InitChat
    /\ [][NextChat]_vars
    /\ WF_vars(ChatServerRespond \/ ChatNetworkError)
    /\ WF_vars(SendMessageSettle)
    /\ WF_vars(EarlierSendMessageSettle)

\* a chat view opened on the first of two processed books of the signed-in
\* user; the backend holds an exchange for the first book and none for the
\* second.  The route may change from one book to the other.
InitNav ==
    /\ user = "u1"
    /\ quizBook = "b1"
    /\ InitMCQVars
    /\ authUid = user
    /\ books = {[id |-> i, user_id |-> user, status |-> "processed",
                 pinecone_namespace |-> NullNs] : i \in 1..2}
    /\ conversations = {}
    /\ chat_histories = {}
    /\ mcq_rows = {}
    /\ nextBookId = 3
    /\ nsUsed = {}
    /\ lastCascade = 0
    /\ version \in {"current", "earlier"}
    /\ bookId = 1
    /\ book = NullBook
    /\ messages = <<>>
    /\ inputMessage = EmptyText
    /\ isLoading = FALSE
    /\ conversationHistory = <<>>
    /\ currentConversationId = NullConvId
    /\ bookFetch = [kind |-> "sent"]
    /\ histFetch = [kind |-> "sent"]
    /\ chatReq = NoReq
    /\ chatResp = NoReq
    /\ turns = 0
    /\ saved = 0
    /\ transcript = [i \in DOMAIN StoredExchange |-> StoredRow(1, StoredExchange[i])]
    /\ lastSettled = "none"
    /\ InitDashVars
    /\ InitIngestVars
    /\ InitAppVars

NextNav ==
    \/ BooksServerRespond
    \/ HistoryServerRespond
    \/ ChatServerRespond
    \/ ChatNetworkError
    \/ FetchBookInfoFails
    \/ FetchBookInfo
    \/ ChatHistoryFetchFails
    \/ \E txt \in Inputs : SetInputMessage(txt)
    \/ SuggestQuestion
    \/ LoadAllConversations
    \/ SendMessage
    \/ SendMessageSettle
    \/ NewChat
    \/ \E i \in 1..(MaxSaved + 1) : LoadConversation(i)
    \/ FetchChatHistory
    \/ EarlierSendMessage
    \/ EarlierSendMessageSettle
    \/ EarlierNewChat
    \/ \E id \in 1..2 : ChangeBook(id)

SpecNav == InitNav /\ [][NextNav]_vars

\* the dashboard of a signed-in user who has one book, right after its mount
\* effect has called fetchBooks
MountFetch == "mount"

InitDash ==
    /\ user = "u1"
    /\ quizBook = "b1"
    /\ InitMCQVars
    /\ authUid = user
    /\ books = {[id |-> 1, user_id |-> user, status |-> "processed",
                 pinecone_namespace |-> NullNs]}
    /\ conversations = {}
    /\ chat_histories = {}
    /\ mcq_rows = {}
    /\ nextBookId = 2
    /\ nsUsed = {}
    /\ lastCascade = 0
    /\ InitChatVars
    /\ uploadType = "file"
    /\ selectedFile = NoFile
    /\ bookName = EmptyText
    /\ showUploadModal = FALSE
    /\ isUploading = FALSE
    /\ uploadProgress = 0
    /\ progressTimer = FALSE
    /\ timers = {}
    /\ uploadReq = NoReq
    /\ uploadResp = NoReq
    /\ dashBooks = {}
    /\ isLoadingBooks = TRUE
    /\ booksFetches = <<BooksFetch(MountFetch, {BooksResult(RequestUserId(user))})>>
    /\ wsUrl = EmptyUrl
    /\ wsTitle = EmptyText
    /\ wsIsLoading = FALSE
    /\ alertShown = NoAlert
    /\ deleteReq = NoReq
    /\ lastIssued = NotHandled
    /\ InitIngestVars
    /\ InitAppVars

NextDash ==
    \/ \E file \in Files : HandleDrop(file)
    \/ \E file \in Files : HandleFileInputChange(file)
    \/ \E t \in {"file", "web"} : SetUploadType(t)
    \/ \E txt \in BookNames : SetBookName(txt)
    \/ CancelUpload
    \/ HandleFileUpload
    \/ ProgressTick
    \/ \E u \in Urls : SetUrl(u)
    \/ \E t \in Titles : SetTitle(t)
    \/ HandleSubmit
    \/ UploadServerRespond
    \/ HandleFileUploadSettle
    \/ HandleWebScrapeSettle
    \/ \E t \in {RefreshUpload, RefreshScrape} : RefreshTimer(t)
    \/ \E t \in {ResetUpload, ResetScrape} : ResetTimer(t)
    \/ \E i \in 1..MaxFetches, ok \in BOOLEAN : FetchBooksSettle(i, ok)
    \/ DismissAlert

SpecDash == InitDash /\ [][NextDash]_vars

\* the dashboard's list of books: one file uploaded under its default name,
\* books deleted from the list, and every call of fetchBooks
ListFile == File(FileName("report.pdf", 10, 6, "report", "pdf"), 1024)

NextDashList ==
    \/ HandleDrop(ListFile)
    \/ HandleFileUpload
    \/ ProgressTick
    \/ UploadServerRespond
    \/ HandleFileUploadSettle
    \/ RefreshTimer(RefreshUpload)
    \/ ResetTimer(ResetUpload)
    \/ \E i \in 1..MaxFetches, ok \in BOOLEAN : FetchBooksSettle(i, ok)
    \/ DismissAlert
    \/ \E id \in BookIds : DeleteBookClick(id)
    \/ DeleteServerRespond
    \/ DeleteBookSettle

SpecDashList == InitDash /\ [][NextDashList]_vars

\* the dashboard when every request settles, every awaiting handler resumes,
\* every timeout that was set fires and the user dismisses every alert
SpecDashLive ==
    /\ InitDash
    /\ [][NextDash]_vars
    /\ WF_vars(UploadServerRespond)
    /\ WF_vars(HandleFileUploadSettle)
    /\ WF_vars(HandleWebScrapeSettle)
    /\ WF_vars(\E t \in {RefreshUpload, RefreshScrape} : RefreshTimer(t))
    /\ WF_vars(\E t \in {ResetUpload, ResetScrape} : ResetTimer(t))
    /\ WF_vars(\E i \in 1..MaxFetches, ok \in BOOLEAN : FetchBooksSettle(i, ok))
    /\ WF_vars(DismissAlert)

\* the ingestion of one content item: any text, any chunk size and any
\* overlap smaller than the chunk size; the index already holds an entry of
\* another content item
InitIngest ==
    /\ user = "u1"
    /\ quizBook = "b1"
    /\ InitMCQVars
    /\ InitStoreVars
    /\ InitChatVars
    /\ InitDashVars
    /\ docText \in Texts
    /\ chunkSize \in 1..MaxChunkSize
    /\ chunkOverlap \in 0..(chunkSize - 1)
    /\ chunks = <<>>
    /\ vectorIndex = {Entry(OtherNamespace, <<<<"a">>>>, 1)}
    /\ upserted = 0
    /\ ingests = 0
    /\ InitAppVars

NextIngest ==
    \/ ChunkText
    \/ UpsertNext
    \/ IngestDone
    \/ IngestFails

SpecIngest == InitIngest /\ [][NextIngest]_vars

\* the application opened at any location, signed in or not
InitApp ==
    /\ user \in Users \cup {NullUser}
    /\ quizBook = "b1"
    /\ InitMCQVars
    /\ InitStoreVars
    /\ InitChatVars
    /\ InitDashVars
    /\ InitIngestVars
    /\ appVersion \in {"current", "earlier"}
    /\ pathname \in Paths
    /\ isDarkTheme = FALSE
    /\ isMobileMenuOpen = FALSE
    /\ screen = RouteElement(pathname, user)

NextApp ==
    \/ \E path \in Paths : Navigate(path)
    \/ \E u \in Users \cup {NullUser} : AuthChange(u)
    \/ HandleThemeToggle
    \/ ToggleMobileMenu

SpecApp == InitApp /\ [][NextApp]_vars


(***************************************************************************)
(* Properties of the quiz generator (SpecMCQ)                              *)
(***************************************************************************)
\* C1: whenever a quiz is shown or has been scored (step is "quiz" or
\* "results"), every item of mcqs has a question, exactly 4 options and a
\* correct_answer that is an integer index in {0,1,2,3}, whatever the server
\* answered.
C1_QuizItemsWellFormed ==
    step \in {"quiz", "results"} =>
        \A i \in 1..Len(mcqs) :
            /\ mcqs[i].isObject
            /\ Truthy(mcqs[i].question)
            /\ mcqs[i].options.isArray
            /\ mcqs[i].options.length = 4
            /\ IsInteger(mcqs[i].correct_answer)
            /\ mcqs[i].correct_answer \in {Num(0), Num(1), Num(2), Num(3)}

\* the items of a list that pass the shape validation, in the list's order
RECURSIVE PassingItems(_)
PassingItems(list) ==
    IF list = <<>> THEN <<>>
    ELSE (IF IsValidMcq(Head(list)) THEN <<Head(list)>> ELSE <<>>)
         \o PassingItems(Tail(list))

\* C2: when a response carrying an mcqs array is handled, the items failing
\* the shape validation are dropped and the valid ones, in order, become the
\* quiz; when no item is valid an error is set, step returns to "config" and
\* mcqs is left unchanged.
C2_InvalidItemsDropped ==
    [][ (mcqResp # NoReq /\ mcqResp' = NoReq
            /\ ResponseOk(mcqResp) /\ mcqResp.body.kind = "list")
        => IF PassingItems(mcqResp.body.mcqs) # <<>>
           THEN /\ mcqs' = PassingItems(mcqResp.body.mcqs)
                /\ step' = "quiz"
                /\ error' = NoError
           ELSE /\ error' # NoError
                /\ step' = "config"
                /\ mcqs' = mcqs ]_vars

\* a quiz was started from a response of which some items were dropped
C2_Witness ==
    /\ step = "quiz"
    /\ lastGen.kept > 0
    /\ lastGen.received > lastGen.kept

\* C6 (quiz generator): a request sent for a signed-in user carries that
\* user's own id as user_id.
C6_RequestsCarryOwnId ==
    mcqReq # NoReq => mcqReq.user_id = user


(***************************************************************************)
(* Properties of the relational store (SpecStore, SpecBooks)               *)
(***************************************************************************)
OwnRows(db, u) ==
    [books |-> {r \in db.books : r.user_id = u},
     conversations |-> {r \in db.conversations : r.user_id = u},
     chat_histories |-> {r \in db.chat_histories : r.user_id = u},
     mcqs |-> {r \in db.mcqs : r.user_id = u}]

ReadIsolation == \A u \in Users : ReadableBy(u, DB) = ReadableBy(u, OwnRows(DB, u))

RowsTouched(before, after) == (before \ after) \cup (after \ before)

\* C5: what a user can read through the schema (the four tables, the view
\* user_content_overview, get_user_content_stats) depends only on the rows
\* whose user_id is that user's id, and a statement of a user inserts,
\* updates or deletes only rows whose user_id is that user's id.
C5_PerUserIsolation ==
    [][ /\ ReadIsolation'
        /\ \A r \in RowsTouched(books, books')
                   \cup RowsTouched(conversations, conversations')
                   \cup RowsTouched(mcq_rows, mcq_rows') : r.user_id = authUid
        /\ \A r \in RowsTouched(chat_histories, chat_histories') : r.user_id = authUid
      ]_vars

\* C8: after a book has been deleted a chat request for its id is answered
\* not-found, and no conversation, chat message or MCQ row of that book
\* remains in the store, for any user.
C8_DeletedBookLeavesNothing ==
    \A d \in DeletedBookIds :
        /\ \A u \in Users : ChatRequestResult(u, d) = "not_found"
        /\ \A c \in conversations : c.book_id # d
        /\ \A h \in chat_histories : h.book_id # d
        /\ \A m \in mcq_rows : m.book_id # d

\* a book was deleted and the cascade removed rows with it
C8_Witness == DeletedBookIds # {} /\ lastCascade > 0

\* C9: a book is created with status "processing", its status changes only
\* from "processing" to "processed" or "failed", and a "processed" or
\* "failed" status never changes again.
C9_StatusLifecycle ==
    [][ /\ \A b \in books' : b.id \notin LiveBookIds => b.status = "processing"
        /\ \A b \in books, c \in books' :
              (b.id = c.id /\ b.status # c.status)
                 => (b.status = "processing" /\ c.status \in {"processed", "failed"})
      ]_vars

\* C10: every book has a namespace, no two books share one, and a namespace
\* once stored for a book (deleted or not) is never stored for another book.
C10_NamespaceUniqueNeverReused ==
    /\ \A b \in books : b.pinecone_namespace # NullNs
    /\ \A b \in books, c \in books :
          b.id # c.id => b.pinecone_namespace # c.pinecone_namespace
    /\ \A p \in nsUsed, q \in nsUsed : p[2] = q[2] => p[1] = q[1]

(***************************************************************************)
(* Properties of the chat view (SpecChat)                                  *)
(***************************************************************************)
\* the POST /chat request failed: the fetch rejected or the status is not OK
ChatFailed(resp) ==
    resp.kind = "network_error" \/ resp.status \notin 200..299

\* a step in which sendMessage handles the outcome of its request
ChatOutcomeHandled ==
    chatReq # NoReq /\ chatResp # NoReq /\ chatResp' = NoReq

\* C3: when sendMessage handles a failed POST /chat (network error or
\* non-OK status), the message list ends with the user's message followed
\* directly by one assistant message carrying the fixed fallback text, that
\* message is the only assistant message of the send, and no message of the
\* list carries the text of an error.
C3_FallbackAfterUserMessage ==
    [][ (ChatOutcomeHandled /\ ChatFailed(chatResp))
        => LET n == Len(messages')
               t == chatReq.turn
           IN /\ n >= 2
              /\ messages'[n] = Message("assistant", FallbackText, t, FALSE)
              /\ messages'[n - 1] = Message("user", chatReq.message, t, FALSE)
              /\ \A i \in 1..(n - 1) :
                    ~(messages'[i].role = "assistant" /\ messages'[i].turn = t)
              /\ \A i \in 1..n : messages'[i].content \notin RawErrorTexts
      ]_vars

\* the place of a message in the send order: the user message of a send,
\* then its reply or fallback, then the next send
Rank(m) == 2 * m.turn + (IF m.role = "assistant" THEN 1 ELSE 0)

InSendOrder(list) ==
    \A i \in DOMAIN list :
        \A j \in (i + 1)..Len(list) : Rank(list[i]) <= Rank(list[j])

\* two different messages of old that are both in new keep their order
OrderKept(old, new) ==
    \/ new = old
    \/ \A i \in DOMAIN old, j \in DOMAIN old :
          (i < j /\ old[i] # old[j])
             => \A l \in DOMAIN new :
                   new[l] = old[j] => \A k \in DOMAIN new : new[k] = old[i] => k < l

\* C4: in every step of a chat view the message list is in send order (a
\* user message before its own reply or fallback, both before the next user
\* message), the messages that stay in the list keep their relative order,
\* and the chat history read back from the backend is in send order.
C4_SendOrder ==
    [][ /\ InSendOrder(messages')
        /\ OrderKept(messages, messages')
        /\ (histFetch' # NoReq /\ histFetch'.kind = "http")
              => InSendOrder(histFetch'.chat_history)
      ]_vars

\* two sends of one view, each followed by its reply or fallback, are in the list
C4_Witness ==
    /\ Len(messages) >= 4
    /\ \E i \in DOMAIN messages, j \in DOMAIN messages :
          /\ messages[i].turn = 1 /\ messages[i].role = "assistant"
          /\ messages[j].turn = 2 /\ messages[j].role = "assistant"
    /\ \E i \in DOMAIN messages, j \in DOMAIN messages :
          /\ messages[i].turn = 1 /\ messages[i].role = "user"
          /\ messages[j].turn = 2 /\ messages[j].role = "user"

\* C7: when the backend handled a chat request while the book's status was
\* "processing" or "failed", its answer is an error, sendMessage ends the
\* message list with the fallback error message, and no assistant message
\* of that send other than the fallback is in the message list or in a
\* conversation of the list of conversations.
C7_NoAnswerForUnprocessedItem ==
    [][ (ChatOutcomeHandled /\ chatResp.kind = "http"
            /\ chatResp.itemStatus \in {"processing", "failed"})
        => LET n == Len(messages')
               t == chatReq.turn
           IN /\ chatResp.status \notin 200..299
              /\ n >= 1
              /\ messages'[n] = Message("assistant", FallbackText, t, FALSE)
              /\ \A i \in 1..n :
                    (messages'[i].role = "assistant" /\ messages'[i].turn = t)
                       => messages'[i].content = FallbackText
              /\ \A c \in DOMAIN conversationHistory' :
                    \A i \in DOMAIN conversationHistory'[c].messages :
                       LET m == conversationHistory'[c].messages[i]
                       IN (m.role = "assistant" /\ m.turn = t)
                             => m.content = FallbackText
      ]_vars

\* the outcome of a request for an unprocessed book was handled and the
\* list ends with the fallback
C7_Witness ==
    /\ lastSettled \in {"processing", "failed"}
    /\ Len(messages) >= 2
    /\ messages[Len(messages)].content = FallbackText
    /\ messages[Len(messages) - 1].role = "user"


\* C15: a conversation saved to the Recent Conversations list by New Chat
\* stays in that list, with the messages it was saved with, through every
\* later sendMessage, newChat and loadConversation.
SavedKept ==
    \A i \in DOMAIN conversationHistory :
        conversationHistory[i].id # CurrentId
           => \E j \in DOMAIN conversationHistory' :
                 conversationHistory'[j] = conversationHistory[i]

C15_SavedConversationsStay ==
    [][ ( \/ SendMessage
          \/ SendMessageSettle
          \/ NewChat
          \/ \E i \in DOMAIN conversationHistory : LoadConversation(i) )
        => SavedKept ]_vars

\* C20: after the chat view's bookId changed and the history load has
\* completed, the displayed messages are exactly the persisted chat history
\* of the new book; checked for a view in which nothing was sent, where
\* every displayed message comes from a history load.
C20_HistoryOfNewBook ==
    [][ ( /\ LoadAllConversations \/ FetchChatHistory
          /\ bookId # 1
          /\ turns = 0 )
        => messages' = ChatHistoryResult(RequestUserId(user), bookId) ]_vars

\* C19: the chat_history sent with a /chat request is exactly the message
\* list as it stood before the new user message was appended: every prior
\* turn of the displayed conversation in order, without the question asked.
C19_HistoryExcludesQuestion ==
    [][ (chatReq = NoReq /\ chatReq' # NoReq)
        => LET sent == chatReq'.chat_history
               question == Message("user", chatReq'.message, chatReq'.turn, FALSE)
           IN /\ sent = messages
              /\ messages' = sent \o <<question>>
              /\ \A i \in DOMAIN sent : sent[i] # question ]_vars

\* a question was sent in a conversation that already had turns
C19_Witness ==
    /\ chatReq # NoReq
    /\ Len(chatReq.chat_history) >= 2
    /\ Len(messages) = Len(chatReq.chat_history) + 1
    /\ messages[Len(messages)].content = chatReq.message

\* C16: New Chat starts a fresh conversation: it leaves the message list
\* empty, and the outcome of a request sent before it adds nothing to the
\* list it emptied, also when it arrives afterwards.
C16_NewChatStartsFresh ==
    [][ /\ (NewChat \/ EarlierNewChat) => messages' = <<>>
        /\ ( /\ SendMessageSettle \/ EarlierSendMessageSettle
             /\ chatReq.beforeNewChat
             /\ messages = <<>> )
           => messages' = <<>> ]_vars

\* C14: stored chat messages are append-only: a row of chat_histories, once
\* created, is never changed and never removed by any statement.
C14_ChatAppendOnly ==
    [][\A h \in chat_histories : h \in chat_histories']_vars

\* C13: the quiz presented after generateMCQs was run with numQuestions = N
\* contains at most N questions, whatever list the server returns.
C13_AtMostRequested ==
    step = "quiz" => Len(mcqs) <= config.numQuestions

C11_WitnessFile ==
    /\ alertShown = AlertTooLarge
    /\ selectedFile = NoFile
    /\ ~showUploadModal
    /\ uploadReq = NoReq

\* C12: a file whose type is not one of the supported formats is rejected
\* before any request is sent to the backend, whether it was picked or
\* dropped: no request to /upload-book carries such a file.
C12_UnsupportedTypeRejected ==
    (uploadReq # NoReq /\ uploadReq.kind = "upload")
        => uploadReq.file.name.ext \in SupportedExts

(***************************************************************************)
(* Properties of the ingestion pipeline (SpecIngest)                       *)
(***************************************************************************)
\* C17: chunker round trip: for every text, chunk size and overlap,
\* concatenating the non-overlapping span of each chunk, in order, gives
\* back exactly the original text.
C17_ChunkerRoundTrip ==
    chunks # <<>> => Reassemble(chunks, Len(chunks), chunkOverlap) = docText

\* a text of several overlapping chunks, the last one short, was chunked
C17_Witness ==
    /\ Len(chunks) >= 2
    /\ chunkOverlap >= 1
    /\ Len(chunks[Len(chunks)]) < chunkSize

\* C18: re-ingestion is idempotent: once the content item was ingested,
\* ingesting it again into the same namespace leaves the index with exactly
\* one entry per chunk, the content it had after the first ingestion.
C18_ReingestIdempotent ==
    ingests >= 1 =>
        NsEntries(vectorIndex, Namespace)
           = {Entry(Namespace, chunks, k) : k \in 1..Len(chunks)}

\* the content item of several chunks was ingested twice
C18_Witness ==
    /\ ingests >= 2
    /\ Len(chunks) >= 2
    /\ Cardinality(NsEntries(vectorIndex, Namespace)) = Len(chunks)

(***************************************************************************)
(* Properties of the routes (SpecApp)                                      *)
(***************************************************************************)
\* C21: the Dashboard, Profile and ChatInterface screens are rendered only
\* while a user is signed in: when user is null the routes /dashboard,
\* /profile and /chat/:bookId render Login, and when user is set /login and
\* /signup render the Dashboard.
C21_ScreensNeedUser ==
    /\ screen \in {"Dashboard", "Profile", "ChatInterface"} => user # NullUser
    /\ ( /\ user = NullUser
         /\ \/ pathname \in {<<"dashboard">>, <<"profile">>}
            \/ Len(pathname) = 2 /\ pathname[1] = "chat" )
       => screen = "Login"
    /\ (user # NullUser /\ pathname \in {<<"login">>, <<"signup">>})
       => screen = "Dashboard"

\* the user signed out while the profile was shown
C21_Witness ==
    /\ user = NullUser
    /\ pathname = <<"profile">>
    /\ screen = "Login"
    /\ isDarkTheme

(***************************************************************************)
(* Properties of sendMessage (SpecChat)                                    *)
(***************************************************************************)
\* C22: at most one /chat request is in flight per chat view at any time:
\* a request is issued only while none is in flight, isLoading is false and
\* the trimmed input is not empty, and isLoading is true for as long as a
\* request is in flight, under every interleaving of send, New Chat,
\* conversation selection and reply arrival.
C22_OneRequestInFlight ==
    [][ /\ turns' # turns =>
             /\ chatReq = NoReq
             /\ ~isLoading
             /\ ~IsBlank(inputMessage)
             /\ chatReq' # NoReq
        /\ chatReq' # NoReq => isLoading'
        /\ (chatReq # NoReq /\ chatReq' # NoReq) => chatReq'.turn = chatReq.turn
      ]_vars

\* a request is in flight and, after New Chat and a suggested question,
\* the input is not empty: only isLoading holds the next send back
C22_Witness ==
    /\ chatReq # NoReq
    /\ chatReq.beforeNewChat
    /\ isLoading
    /\ ~IsBlank(inputMessage)
    /\ turns < MaxSends

\* the assistant messages of a list that answer the user message of a turn
AssistantCount(list, turn) ==
    Len(SelectSeq(list, LAMBDA m : m.role = "assistant" /\ m.turn = turn))

\* C23: every accepted sendMessage eventually completes: once its request
\* settles, exactly one assistant message is added for the user message (the
\* reply when the response is OK, the fallback otherwise), at the end of the
\* list, and isLoading is false again, so that a further message can be sent.
C23_SendCompletes ==
    /\ [][ (chatReq # NoReq /\ chatReq' = NoReq) =>
             /\ ~isLoading'
             /\ chatResp # NoReq
             /\ Len(messages') > 0
             /\ LET added == messages'[Len(messages')]
                IN /\ added.role = "assistant"
                   /\ added.turn = chatReq.turn
                   /\ added.content = IF ChatThrown(chatResp) = NoThrow
                                      THEN chatResp.response
                                      ELSE FallbackText
             /\ AssistantCount(messages', chatReq.turn)
                   <= AssistantCount(messages, chatReq.turn) + 1
          ]_vars
    /\ (chatReq # NoReq) ~> (chatReq = NoReq /\ ~isLoading)

\* a further message was sent after the first one ended with the fallback
C23_Witness ==
    /\ turns = 2
    /\ chatReq # NoReq
    /\ \E i \in DOMAIN messages :
          /\ messages[i].role = "assistant"
          /\ messages[i].turn = 1
          /\ messages[i].content = FallbackText

(***************************************************************************)
(* Properties of the quiz (SpecMCQ)                                        *)
(***************************************************************************)
\* the moves of step
StepMoves ==
    { <<"config", "generating">>, <<"generating", "quiz">>,
      <<"generating", "config">>, <<"quiz", "results">>,
      <<"results", "config">> }

\* C24: step only ever moves config -> generating, generating -> quiz (valid
\* response), generating -> config (failure), quiz -> results (submit) and
\* results -> config (reset); 'results' is entered only from 'quiz' with
\* score set, and score is non-null whenever step is 'results'.
C24_StepMoves ==
    /\ [][ /\ step' # step => <<step, step'>> \in StepMoves
           /\ (step = "generating" /\ step' = "quiz") =>
                  /\ mcqResp # NoReq
                  /\ Thrown(mcqResp) = NoThrow
                  /\ Len(mcqs') > 0
           /\ (step = "generating" /\ step' = "config") =>
                  /\ mcqResp # NoReq
                  /\ Thrown(mcqResp) # NoThrow
           /\ (mcqResp # NoReq /\ mcqResp' = NoReq) => step' # step
           /\ (step # "results" /\ step' = "results") =>
                  step = "quiz" /\ ~score'.isNull
         ]_vars
    /\ [](step = "results" => ~score.isNull)
    /\ [](step \in {"config", "generating", "quiz", "results"})

\* a generated quiz was submitted, with an answer that is not the correct one
C24_Witness ==
    /\ step = "results"
    /\ ~score.isNull
    /\ score.correct < score.total
    /\ error = NoError

\* C25: whenever step is 'quiz', 0 <= currentQuestionIndex < mcqs.length,
\* after any sequence of Previous, Next, answer selection, submit, reset and
\* regeneration, also when a later quiz has fewer questions than an earlier
\* one.
C25_IndexInRange ==
    step = "quiz" =>
        /\ 0 <= currentQuestionIndex
        /\ currentQuestionIndex < Len(mcqs)

\* the last question of a quiz of several questions is shown, with an answer
\* selected
C25_Witness ==
    /\ QuizShown
    /\ Len(mcqs) >= 2
    /\ currentQuestionIndex = Len(mcqs) - 1
    /\ NumAnswered >= 1

\* the option selected for an item of the quiz, as the quiz view shows it:
\* userAnswers[mcq.id]
SelectedOption(mcq) == userAnswers[ToKey(mcq.id)]

\* the quiz view shows Submit Quiz on the last question, enabled unless
\* Object.keys(userAnswers).length !== mcqs.length
SubmitEnabled ==
    /\ QuizShown
    /\ currentQuestionIndex = Len(mcqs) - 1
    /\ NumAnswered = Len(mcqs)

\* C26: in the quiz step, on the question that shows Submit Quiz, the button
\* is enabled exactly when every question of the quiz has a selected option,
\* for every batch of MCQs that passes validation; so a user who answers all
\* questions can always submit.
C26_SubmitWhenAllAnswered ==
    (QuizShown /\ currentQuestionIndex = Len(mcqs) - 1) =>
        (SubmitEnabled <=>
            \A i \in DOMAIN mcqs : SelectedOption(mcqs[i]) # Undefined)

C28_MessageCountMatches ==
    \A i \in DOMAIN conversationHistory :
        conversationHistory[i].messageCount =
            Cardinality({j \in DOMAIN conversationHistory[i].messages :
                            conversationHistory[i].messages[j].role = "user"})

\* New Chat saved a conversation of two questions and their replies
C28_Witness ==
    \E i \in DOMAIN conversationHistory :
        /\ conversationHistory[i].id # CurrentId
        /\ conversationHistory[i].messageCount = 2
        /\ Len(conversationHistory[i].messages) = 4

C30_LatestFetchWins ==
    /\ (booksFetches = <<>> /\ lastIssued.known /\ lastIssued.ok)
          => dashBooks = lastIssued.books
    /\ ~isLoadingBooks => booksFetches = <<>>

=============================================================================
